---- MODULE Spec2Model ----
(***************************************************************************)
(* Model of the PLC polling service (PlcService) of gantry_operation_sw:   *)
(* per-key interval timers, the global polling switch, the registry and    *)
(* cache stores, and the serialized device link.  Every async method is    *)
(* split at its awaits; everything between two awaits is one atomic step   *)
(* (single-threaded event loop).                                           *)
(***************************************************************************)
EXTENDS Integers, Sequences, FiniteSets, Bags, TLC

\* ---------------------------------------------------------------- bounds
MaxStarts == 1      \* startPolling calls suspended at an await at the same time
MaxRegs == 1        \* registerDataPoint calls suspended at an await
MaxUnregs == 1      \* unregisterDataPoint calls suspended at an await
MaxWrites == 1      \* writeData calls that have not finished
MaxPolls == 2       \* pollDataPoint invocations that have not finished
MaxReadCount == 1   \* cap of the readCount counter
MaxReads == 5       \* largest readCount a Running period is observed with
MaxSeconds == 3     \* the wall clock runs up to this many seconds
MaxWords == 2       \* most words in the cached values of a data set

\* ------------------------------------------------------- program constants
DefaultPollingInterval == 1000

\* ------------------------------------------------------------ value space
Keys == {"k1", "k2"}
Undefined == -1              \* an absent optional number (bit, pollingInterval)
Null == -2                   \* a null optional number or date
NoError == "<undefined>"     \* error: undefined
NoTimer == 0
NoDef == [key |-> "-", addressType |-> "-", type |-> "-", bit |-> Undefined,
          length |-> 0, pollingInterval |-> 0]
NoEntry == [present |-> FALSE, kind |-> "-", words |-> <<>>, text |-> "",
            bool |-> FALSE, error |-> NoError, timestamp |-> 0]

\* PlcValue = number[] | string | boolean, as a tagged value
NumberValue(ws) == [kind |-> "number", words |-> ws, text |-> "", bool |-> FALSE]
StringValue(t) == [kind |-> "string", words |-> <<>>, text |-> t, bool |-> FALSE]
BoolValue(b) == [kind |-> "bool", words |-> <<>>, text |-> "", bool |-> b]

\* the request bodies registerDataPoint is called with
Dtos ==
  { [key |-> "k1", addressType |-> "D", type |-> "number", bit |-> Undefined,
     length |-> 1, pollingInterval |-> 100],
    [key |-> "k2", addressType |-> "m", type |-> "bool", bit |-> 3,
     length |-> 1, pollingInterval |-> Undefined] }

\* request bodies for one key that reach every branch of pollDataPoint and of
\* the checks of writeData: each value type, a bool without bit, an address
\* type without region code, a type that is none of number, string, bool
PollDtos ==
  { [key |-> "k1", addressType |-> "D", type |-> "number", bit |-> Undefined,
     length |-> 1, pollingInterval |-> 100],
    [key |-> "k1", addressType |-> "r", type |-> "string", bit |-> Undefined,
     length |-> 2, pollingInterval |-> 100],
    [key |-> "k1", addressType |-> "M", type |-> "bool", bit |-> 0,
     length |-> 1, pollingInterval |-> 100],
    [key |-> "k1", addressType |-> "M", type |-> "bool", bit |-> Undefined,
     length |-> 1, pollingInterval |-> 100],
    [key |-> "k1", addressType |-> "Q", type |-> "number", bit |-> Undefined,
     length |-> 1, pollingInterval |-> 100],
    [key |-> "k1", addressType |-> "D", type |-> "float", bit |-> Undefined,
     length |-> 1, pollingInterval |-> 100] }

\* the bodies of PollDtos that pass every check: the same key registered as
\* a number definition and as a bool definition
RetypedDtos ==
  {dto \in PollDtos : /\ dto.addressType \in {"D", "M"}
                      /\ dto.type \in {"number", "bool"}
                      /\ dto.type = "bool" => dto.bit # Undefined}

\* the values writeData is called with; the text "hello" has more bytes than the
\* two words of the string definition of PollDtos hold
WriteValues ==
  { NumberValue(<<5>>), BoolValue(TRUE), StringValue("hi"), StringValue("hello") }

\* getPollingMetrics has not been called
NoMetrics == [readCount |-> Undefined, readsPerSecond |-> Undefined,
              elapsedSeconds |-> Undefined]

\* RegisterPage: useState of formData (no bit)
InitialFormData ==
  [key |-> "", description |-> "", addressType |-> "D", type |-> "number",
   bit |-> Undefined, length |-> 1, pollingInterval |-> 1000]

\* what renderTagValue returns: a number, a marker text or a decoded text
RenderedNumber(n) == [kind |-> "number", num |-> n, text |-> ""]
RenderedText(t) == [kind |-> "text", num |-> 0, text |-> t]
\* a decoded text, given by the bytes of its characters
RenderedBytes(bs) == [kind |-> "bytes", num |-> 0, text |-> "", bytes |-> bs]
\* a number with decimals: (whole + frac / 10^4) * 2^exp2, negated when neg
RenderedReal(neg, whole, frac, exp2) ==
  [kind |-> "real", num |-> whole, text |-> "", neg |-> neg, frac |-> frac,
   exp2 |-> exp2]
RenderedNaN == [kind |-> "NaN", num |-> 0, text |-> ""]
RenderedInfinity(neg) == [kind |-> "Infinity", num |-> 0, text |-> "", neg |-> neg]
NotRendered == [kind |-> "-", num |-> 0, text |-> ""]
NoTag == [offset |-> 0, dataType |-> "-", wordLength |-> Undefined,
          bitPosition |-> Undefined]

VARIABLES
  isPollingActive,    \* PlcService.isPollingActive
  readCount,          \* PlcService.readCount
  pollingStartTime,   \* PlcService.pollingStartTime (Null or a clock value)
  pollingTimers,      \* PlcService.pollingTimers: key -> timer handle (NoTimer = no entry)
  liveTimers,         \* the interval timers of the event loop that are not cleared
  connected,          \* communication.isConnectionActive()
  registry,           \* data_points table: key -> definition (NoDef = no row)
  cache,              \* plc_cache table: key -> entry (NoEntry = no row)
  starts,             \* bag of startPolling calls suspended at an await
  regs,               \* bag of registerDataPoint calls suspended at an await
  unregs,             \* bag of unregisterDataPoint calls suspended at an await
  writes,             \* bag of writeData calls suspended at findDataPoint
  gateQueue,          \* device requests waiting for the link, in request order
  inFlight,           \* device requests currently on the link
  saves,              \* bag of saveCache calls issued and not yet executed
  now,                \* wall clock read by new Date(); no step of these specifications advances it
  writeResult,        \* how the writeData call that finished last ended ("-": none has finished)
  mark,               \* history: key -> what its last (un)registration found
  metrics,            \* what the getPollingMetrics call that returned last returned
  formData,           \* RegisterPage: the formData state of the form
  submits,            \* RegisterPage: bag of handleSubmit calls suspended at await registerDataPoint
  tag,                \* DataSetCachePage: the tag renderTagValue is called with
  dsValues,           \* DataSetCachePage: the cached words of the tag's data set
  rendered            \* DataSetCachePage: what the renderTagValue call that returned last returned

vars == <<isPollingActive, readCount, pollingStartTime, pollingTimers, liveTimers,
          connected, registry, cache, starts, regs, unregs, writes, gateQueue,
          inFlight,
          saves, now, writeResult, mark,
          metrics, formData, submits, tag, dsValues, rendered>>

\* the state of PlcService, of its stores and of the device link
service == <<isPollingActive, readCount, pollingStartTime, pollingTimers, liveTimers,
             connected, registry, cache, starts, regs, unregs, writes, gateQueue,
             inFlight, saves, writeResult, mark>>

\* the responses kept for the callers and the state of the pages
views == <<metrics, formData, submits, tag, dsValues, rendered>>

\* no caller has asked for the metrics, the pages are as mounted
InitViews ==
  /\ metrics = NoMetrics
  /\ formData = InitialFormData
  /\ submits = EmptyBag
  /\ tag = NoTag
  /\ dsValues = <<>>
  /\ rendered = NotRendered

\* the part of the state that the synchronous helpers below transform
Sched == [pollingTimers |-> pollingTimers, liveTimers |-> liveTimers,
          gateQueue |-> gateQueue, inFlight |-> inFlight, saves |-> saves]

BagOf(x) == SetToBag({x})

\* ------------------------------------------------------------ pure helpers

\* getDeviceCode: the region code of an address type, "" when it has none
getDeviceCode(addressType) ==
  CASE addressType \in {"D", "d"} -> "D"
    [] addressType \in {"R", "r"} -> "R"
    [] addressType \in {"M", "m"} -> "M"
    [] addressType \in {"X", "x"} -> "X"
    [] addressType \in {"Y", "y"} -> "Y"
    [] OTHER -> ""

\* getEmptyValueForType with the default branch only
getEmptyValueForType_defaultOnly(type) == StringValue("")

getEmptyValueForType(type) ==
  CASE type = "number" -> NumberValue(<<>>)
    [] type = "bool" -> BoolValue(FALSE)
    [] OTHER -> StringValue("")

CacheEntry(value, error, ts) ==
  [present |-> TRUE, kind |-> value.kind, words |-> value.words, text |-> value.text,
   bool |-> value.bool, error |-> error, timestamp |-> ts]

\* a device request: kind "poll" (read for pollDataPoint) or "write" (writeData),
\* op the primitive of the link that is called (readNumbers, readString, readBit,
\* writeNumbers, writeString, writeBit); the region, address, length and bit
\* passed to it are those of dp, value is the value passed to a write
Request(kind, op, dp, value) == [kind |-> kind, op |-> op, dp |-> dp, value |-> value]

\* a saveCache call: issued by a poll or a write, from the try or the catch block
Save(by, phase, dp, entry) == [by |-> by, phase |-> phase, dp |-> dp, entry |-> entry]

RECURSIVE SeqCount(_, _, _)
SeqCount(q, kind, key) ==
  IF q = <<>> THEN 0
  ELSE (IF Head(q).kind = kind /\ Head(q).dp.key = key THEN 1 ELSE 0)
       + SeqCount(Tail(q), kind, key)

RECURSIVE BagCount(_, _, _, _)
BagCount(b, dom, by, key) ==
  IF dom = {} THEN 0
  ELSE LET x == CHOOSE y \in dom : TRUE
       IN (IF x.by = by /\ x.dp.key = key THEN b[x] ELSE 0)
          + BagCount(b, dom \ {x}, by, key)

\* pollDataPoint invocations of a key that have started and not yet finished
PollsOf(s, key) ==
  SeqCount(s.gateQueue, "poll", key) + SeqCount(s.inFlight, "poll", key)
  + BagCount(s.saves, DOMAIN s.saves, "poll", key)

RECURSIVE SumOver(_, _)
SumOver(f, S) ==
  IF S = {} THEN 0
  ELSE LET x == CHOOSE y \in S : TRUE IN f[x] + SumOver(f, S \ {x})

PollsInFlight(s) == SumOver([k \in Keys |-> PollsOf(s, k)], Keys)

\* ------------------------------------------------- Transport Gate (device link)

\* GateSubmit without the queue: every call goes straight to the link
GateSubmit_unserialized(s, req) == [s EXCEPT !.inFlight = Append(@, req)]

\* a device call: the request goes on the link when the link is idle and
\* waits in request order behind the call in flight otherwise
GateSubmit(s, req) ==
  IF s.inFlight = <<>> /\ s.gateQueue = <<>>
  THEN [s EXCEPT !.inFlight = <<req>>]
  ELSE [s EXCEPT !.gateQueue = Append(@, req)]

\* the call in flight has returned: the next waiting request goes on the link
GateRelease(q, fl) ==
  IF q = <<>> THEN [gateQueue |-> <<>>, inFlight |-> Tail(fl)]
  ELSE [gateQueue |-> Tail(q), inFlight |-> Append(Tail(fl), Head(q))]

\* ------------------------------------------------------- scheduler helpers

\* setInterval hands out a handle that no live timer has
NewTimer(live) ==
  CHOOSE i \in 1..(Cardinality(live) + 1) :
    /\ \A t \in live : t.id # i
    /\ \A j \in 1..(i - 1) : \E t \in live : t.id = j

stopPollingForDataPoint(s, key) ==
  IF s.pollingTimers[key] # NoTimer
  THEN [s EXCEPT !.liveTimers = {t \in @ : t.id # s.pollingTimers[key]},
                 !.pollingTimers[key] = NoTimer]
  ELSE s

\* pollDataPoint up to its first await: either a device read is requested or
\* the catch block has issued the saveCache of the error record
\* PollFailed that saves the empty value without the error message
PollFailed_noMessage(s, dp, message) ==
  [s EXCEPT !.saves = @ (+) BagOf(Save("poll", "catch", dp,
      CacheEntry(getEmptyValueForType(dp.type), NoError, now)))]

PollFailed(s, dp, message) ==
  [s EXCEPT !.saves = @ (+) BagOf(Save("poll", "catch", dp,
      CacheEntry(getEmptyValueForType(dp.type), message, now)))]

\* pollDataPoint that reads every definition with readNumbers
pollDataPoint_readNumbersOnly(s, dp) ==
  IF getDeviceCode(dp.addressType) = ""
  THEN PollFailed(s, dp, "Invalid address type")
  ELSE GateSubmit(s, Request("poll", "readNumbers", dp, getEmptyValueForType(dp.type)))

pollDataPoint(s, dp) ==
  IF getDeviceCode(dp.addressType) = ""
  THEN PollFailed(s, dp, "Invalid address type")
  ELSE CASE dp.type = "number" ->
              GateSubmit(s, Request("poll", "readNumbers", dp, getEmptyValueForType(dp.type)))
         [] dp.type = "string" ->
              GateSubmit(s, Request("poll", "readString", dp, getEmptyValueForType(dp.type)))
         [] dp.type = "bool" ->
              IF dp.bit = Undefined \/ dp.bit = Null
              THEN PollFailed(s, dp, "Bit position required")
              ELSE GateSubmit(s, Request("poll", "readBit", dp, getEmptyValueForType(dp.type)))
         [] OTHER -> PollFailed(s, dp, "Unknown type")

\* startPollingForDataPoint without the stopPollingForDataPoint call of its first line
startPollingForDataPoint_noStop(s, dp) ==
  LET timer == [id |-> NewTimer(s.liveTimers), dp |-> dp]
      s2 == [s EXCEPT !.liveTimers = @ \cup {timer},
                      !.pollingTimers[dp.key] = timer.id]
  IN pollDataPoint(s2, dp)

startPollingForDataPoint(s, dp) ==
  LET s1 == stopPollingForDataPoint(s, dp.key)
      timer == [id |-> NewTimer(s1.liveTimers), dp |-> dp]
      s2 == [s1 EXCEPT !.liveTimers = @ \cup {timer},
                       !.pollingTimers[dp.key] = timer.id]
  IN pollDataPoint(s2, dp)

\* the loop of startPolling over the definitions findAllDataPoints returned
RECURSIVE StartAll(_, _)
StartAll(s, dps) ==
  IF dps = <<>> THEN s
  ELSE StartAll(startPollingForDataPoint(s, Head(dps)), Tail(dps))

\* the orders in which findAllDataPoints can return a set of definitions
RECURSIVE Orders(_)
Orders(S) ==
  IF S = {} THEN {<<>>}
  ELSE UNION {{<<x>> \o o : o \in Orders(S \ {x})} : x \in S}

SetSched(s) ==
  /\ pollingTimers' = s.pollingTimers
  /\ liveTimers' = s.liveTimers
  /\ gateQueue' = s.gateQueue
  /\ inFlight' = s.inFlight
  /\ saves' = s.saves

\* the DataPoint entity registerDataPoint builds from its request body
DataPointOf(dto) ==
  [key |-> dto.key, addressType |-> dto.addressType, type |-> dto.type,
   bit |-> dto.bit, length |-> dto.length,
   pollingInterval |-> IF dto.pollingInterval \in {Undefined, Null}
                       THEN DefaultPollingInterval ELSE dto.pollingInterval]

\* what the device returns for a read: readNumbers the requested number of
\* words, readString a text, readBit a boolean
ReadValues(req) ==
  CASE req.op = "readNumbers" -> {NumberValue([i \in 1..req.dp.length |-> 7])}
    [] req.op = "readString" -> {StringValue("ab")}
    [] OTHER -> {BoolValue(TRUE)}

StartCall(stage, dps) == [stage |-> stage, dataPoints |-> dps]

\* ------------------------------------------------------------------- Init
Init ==
  /\ isPollingActive = FALSE
  /\ readCount = 0
  /\ pollingStartTime = Null
  /\ pollingTimers = [k \in Keys |-> NoTimer]
  /\ liveTimers = {}
  /\ connected \in BOOLEAN
  /\ registry = [k \in Keys |-> NoDef]
  /\ cache = [k \in Keys |-> NoEntry]
  /\ starts = EmptyBag
  /\ regs = EmptyBag
  /\ unregs = EmptyBag
  /\ writes = EmptyBag
  /\ gateQueue = <<>>
  /\ inFlight = <<>>
  /\ saves = EmptyBag
  /\ now = 0
  /\ writeResult = "-"
  /\ mark = [k \in Keys |-> "-"]
  /\ InitViews

\* ------------------------------------------------------------ startPolling

\* lines 98-105: switch on, reset the metrics, request the definitions
Activate(call) ==
  /\ isPollingActive' = TRUE
  /\ readCount' = 0
  /\ pollingStartTime' = now
  /\ starts' = (starts (-) call) (+) BagOf(StartCall("findAll", {}))
  /\ mark' = [k \in Keys |-> IF mark[k] = "registeredStopped" THEN "-" ELSE mark[k]]

\* startPolling without its guard
PollingAlreadyActive_never == FALSE

\* the guard of startPolling: the call returns at once when it holds
PollingAlreadyActive == isPollingActive

\* startPolling up to its first await
startPolling ==
  /\ BagCardinality(starts) < MaxStarts
  /\ IF PollingAlreadyActive
     THEN UNCHANGED <<isPollingActive, readCount, pollingStartTime, starts, connected, mark>>
     ELSE IF ~connected
          THEN /\ starts' = starts (+) BagOf(StartCall("connect", {}))
               /\ UNCHANGED <<isPollingActive, readCount, pollingStartTime, connected, mark>>
          ELSE /\ Activate(EmptyBag)
               /\ UNCHANGED connected
  /\ UNCHANGED <<pollingTimers, liveTimers, registry, cache, regs, unregs, writes,
                 gateQueue, inFlight, saves, now, views, writeResult>>

\* await communication.connect() has returned
startPolling_connected ==
  /\ BagIn(StartCall("connect", {}), starts)
  /\ connected' = TRUE
  /\ Activate(BagOf(StartCall("connect", {})))
  /\ UNCHANGED <<pollingTimers, liveTimers, registry, cache, regs, unregs, writes,
                 gateQueue, inFlight, saves, now, views, writeResult>>

\* startPolling that catches the error of connect and goes on
startPolling_connectFailed_caught ==
  /\ BagIn(StartCall("connect", {}), starts)
  /\ ~connected
  /\ Activate(BagOf(StartCall("connect", {})))
  /\ UNCHANGED <<pollingTimers, liveTimers, connected, registry, cache, regs, unregs,
                 writes, gateQueue, inFlight, saves, now, views, writeResult>>

\* await communication.connect() has thrown: the call ends with the error
startPolling_connectFailed ==
  /\ BagIn(StartCall("connect", {}), starts)
  /\ ~connected
  /\ starts' = starts (-) BagOf(StartCall("connect", {}))
  /\ UNCHANGED <<isPollingActive, readCount, pollingStartTime, pollingTimers,
                 liveTimers, connected, registry, cache, regs, unregs, writes,
                 gateQueue, inFlight, saves, now, views, writeResult, mark>>

\* the registry store executes findAllDataPoints
startPolling_findAll ==
  /\ BagIn(StartCall("findAll", {}), starts)
  /\ starts' = (starts (-) BagOf(StartCall("findAll", {})))
                 (+) BagOf(StartCall("loop", {registry[k] : k \in {x \in Keys : registry[x] # NoDef}}))
  /\ UNCHANGED <<isPollingActive, readCount, pollingStartTime, pollingTimers,
                 liveTimers, connected, registry, cache, regs, unregs, writes,
                 gateQueue, inFlight, saves, now, views, writeResult, mark>>

\* await db.findAllDataPoints() has returned: the loop over the definitions
startPolling_loop ==
  \E call \in DOMAIN starts :
    /\ call.stage = "loop"
    /\ PollsInFlight(Sched) + Cardinality(call.dataPoints) <= MaxPolls
    /\ \E order \in Orders(call.dataPoints) : SetSched(StartAll(Sched, order))
    /\ starts' = starts (-) BagOf(call)
    /\ UNCHANGED <<isPollingActive, readCount, pollingStartTime, connected, registry,
                   cache, regs, unregs, writes, now, views, writeResult, mark>>

\* stopPolling that empties pollingTimers without clearInterval on the timers
stopPolling_keepsTimers ==
  /\ IF ~isPollingActive
     THEN UNCHANGED <<isPollingActive, readCount, pollingStartTime, pollingTimers>>
     ELSE /\ isPollingActive' = FALSE
          /\ readCount' = 0
          /\ pollingStartTime' = Null
          /\ pollingTimers' = [k \in Keys |-> NoTimer]
  /\ UNCHANGED <<liveTimers, connected, registry, cache, starts, regs, unregs, writes,
                 gateQueue, inFlight, saves, now, views, writeResult, mark>>

\* ------------------------------------------------------------- stopPolling
stopPolling ==
  /\ IF ~isPollingActive
     THEN UNCHANGED <<isPollingActive, readCount, pollingStartTime, pollingTimers, liveTimers>>
     ELSE /\ isPollingActive' = FALSE
          /\ readCount' = 0
          /\ pollingStartTime' = Null
          /\ liveTimers' = {t \in liveTimers :
                              \A k \in Keys : pollingTimers[k] # t.id}
          /\ pollingTimers' = [k \in Keys |-> NoTimer]
  /\ UNCHANGED <<connected, registry, cache, starts, regs, unregs, writes,
                 gateQueue, inFlight, saves, now, views, writeResult, mark>>

\* ------------------------------------------------------- registerDataPoint
RegCall(stage, dp) == [stage |-> stage, dp |-> dp]

\* registerDataPoint up to await db.createDataPoint
registerDataPoint ==
  \E dto \in Dtos :
    /\ BagCardinality(regs) < MaxRegs
    /\ regs' = regs (+) BagOf(RegCall("create", DataPointOf(dto)))
    /\ UNCHANGED <<isPollingActive, readCount, pollingStartTime, pollingTimers,
                   liveTimers, connected, registry, cache, starts, unregs, writes,
                   gateQueue, inFlight, saves, now, views, writeResult, mark>>

\* registerDataPoint called with a body of RetypedDtos
registerDataPoint_retyped ==
  \E dto \in RetypedDtos :
    /\ BagCardinality(regs) < MaxRegs
    /\ regs' = regs (+) BagOf(RegCall("create", DataPointOf(dto)))
    /\ UNCHANGED <<isPollingActive, readCount, pollingStartTime, pollingTimers,
                   liveTimers, connected, registry, cache, starts, unregs, writes,
                   gateQueue, inFlight, saves, now, views, writeResult, mark>>

\* the registry store persists the definition
registerDataPoint_create ==
  \E call \in DOMAIN regs :
    /\ call.stage = "create"
    /\ registry[call.dp.key] = NoDef
    /\ registry' = [registry EXCEPT ![call.dp.key] = call.dp]
    /\ regs' = (regs (-) BagOf(call)) (+) BagOf(RegCall("saved", call.dp))
    /\ mark' = [mark EXCEPT ![call.dp.key] = "-"]
    /\ UNCHANGED <<isPollingActive, readCount, pollingStartTime, pollingTimers,
                   liveTimers, connected, cache, starts, unregs, writes,
                   gateQueue, inFlight, saves, now, views, writeResult>>

\* registerDataPoint that stops the timer of the key before it persists the
\* definition, as unregisterDataPoint does before it deletes
registerDataPoint_rejected_stopsTimer ==
  \E call \in DOMAIN regs :
    /\ call.stage = "create"
    /\ regs' = regs (-) BagOf(call)
    /\ SetSched(stopPollingForDataPoint(Sched, call.dp.key))
    /\ UNCHANGED <<isPollingActive, readCount, pollingStartTime, connected, registry,
                   cache, starts, unregs, writes, now, views, writeResult, mark>>

\* the registry store rejects the definition (duplicate key, storage failure):
\* the call ends with the error
registerDataPoint_rejected ==
  \E call \in DOMAIN regs :
    /\ call.stage = "create"
    /\ regs' = regs (-) BagOf(call)
    /\ UNCHANGED <<isPollingActive, readCount, pollingStartTime, pollingTimers,
                   liveTimers, connected, registry, cache, starts, unregs, writes,
                   gateQueue, inFlight, saves, now, views, writeResult, mark>>

\* await db.createDataPoint has returned
registerDataPoint_saved ==
  \E call \in DOMAIN regs :
    /\ call.stage = "saved"
    /\ IF isPollingActive
       THEN /\ PollsInFlight(Sched) < MaxPolls
            /\ SetSched(startPollingForDataPoint(Sched, call.dp))
            /\ mark' = mark
       ELSE /\ UNCHANGED <<pollingTimers, liveTimers, gateQueue, inFlight, saves>>
            /\ mark' = [mark EXCEPT ![call.dp.key] = "registeredStopped"]
    /\ regs' = regs (-) BagOf(call)
    /\ UNCHANGED <<isPollingActive, readCount, pollingStartTime, connected, registry,
                   cache, starts, unregs, writes, now, views, writeResult>>

\* ----------------------------------------------------- unregisterDataPoint

\* unregisterDataPoint up to await db.deleteDataPoint
unregisterDataPoint ==
  \E key \in Keys :
    /\ BagCardinality(unregs) < MaxUnregs
    /\ SetSched(stopPollingForDataPoint(Sched, key))
    /\ unregs' = unregs (+) BagOf(key)
    /\ UNCHANGED <<isPollingActive, readCount, pollingStartTime, connected, registry,
                   cache, starts, regs, writes, now, views, writeResult, mark>>

\* the registry store deletes the row and the call returns
unregisterDataPoint_deleted ==
  \E key \in DOMAIN unregs :
    /\ registry' = [registry EXCEPT ![key] = NoDef]
    /\ unregs' = unregs (-) BagOf(key)
    /\ mark' = [mark EXCEPT ![key] = IF isPollingActive THEN "unregisteredRunning" ELSE "-"]
    /\ UNCHANGED <<isPollingActive, readCount, pollingStartTime, pollingTimers,
                   liveTimers, connected, cache, starts, regs, writes,
                   gateQueue, inFlight, saves, now, views, writeResult>>

\* the registry store fails to delete: the call ends with the error
unregisterDataPoint_failed ==
  \E key \in DOMAIN unregs :
    /\ unregs' = unregs (-) BagOf(key)
    /\ UNCHANGED <<isPollingActive, readCount, pollingStartTime, pollingTimers,
                   liveTimers, connected, registry, cache, starts, regs, writes,
                   gateQueue, inFlight, saves, now, views, writeResult, mark>>

\* ------------------------------------------------------------- timer ticks

\* the callback of a live interval timer runs
Tick ==
  \E t \in liveTimers :
    /\ PollsInFlight(Sched) < MaxPolls
    /\ SetSched(pollDataPoint(Sched, t.dp))
    /\ UNCHANGED <<isPollingActive, readCount, pollingStartTime, connected, registry,
                   cache, starts, regs, unregs, writes, now, views, writeResult, mark>>

\* ------------------------------------------------------------- device link

\* the device call in flight returns: pollDataPoint counts the read and issues
\* the saveCache of the value; writeData issues the saveCache of the written value
LinkReturned ==
  /\ inFlight # <<>>
  /\ LET req == Head(inFlight)
         rel == GateRelease(gateQueue, inFlight)
     IN /\ gateQueue' = rel.gateQueue
        /\ inFlight' = rel.inFlight
        /\ IF req.kind = "poll"
           THEN /\ readCount < MaxReadCount
                /\ readCount' = readCount + 1
                /\ \E v \in ReadValues(req) :
                     saves' = saves (+) BagOf(Save("poll", "try", req.dp,
                                                   CacheEntry(v, NoError, now)))
           ELSE /\ readCount' = readCount
                /\ saves' = saves (+) BagOf(Save("write", "try", req.dp,
                                                 CacheEntry(req.value, NoError, now)))
  /\ UNCHANGED <<isPollingActive, pollingStartTime, pollingTimers, liveTimers,
                 connected, registry, cache, starts, regs, unregs, writes, now, views, writeResult, mark>>

\* LinkThrew in which a failed read also clears the interval timer of the key
LinkThrew_stopsTimer ==
  /\ inFlight # <<>>
  /\ LET req == Head(inFlight)
         rel == GateRelease(gateQueue, inFlight)
         s == stopPollingForDataPoint(Sched, req.dp.key)
     IN /\ gateQueue' = rel.gateQueue
        /\ inFlight' = rel.inFlight
        /\ IF req.kind = "poll"
           THEN /\ saves' = saves (+) BagOf(Save("poll", "catch", req.dp,
                     CacheEntry(getEmptyValueForType(req.dp.type), "read failed", now)))
                /\ writeResult' = writeResult
                /\ pollingTimers' = s.pollingTimers
                /\ liveTimers' = s.liveTimers
           ELSE /\ saves' = saves
                /\ writeResult' = "write failed"
                /\ UNCHANGED <<pollingTimers, liveTimers>>
  /\ UNCHANGED <<isPollingActive, readCount, pollingStartTime,
                 connected, registry, cache, starts, regs, unregs,
                 writes, now, views, mark>>

\* LinkThrew in which a failed write saves an error record as a failed poll does
LinkThrew_recordsWriteError ==
  /\ inFlight # <<>>
  /\ LET req == Head(inFlight)
         rel == GateRelease(gateQueue, inFlight)
     IN /\ gateQueue' = rel.gateQueue
        /\ inFlight' = rel.inFlight
        /\ saves' = saves (+) BagOf(Save(req.kind, "catch", req.dp,
               CacheEntry(getEmptyValueForType(req.dp.type),
                          IF req.kind = "poll" THEN "read failed" ELSE "write failed", now)))
        /\ writeResult' = IF req.kind = "poll" THEN writeResult ELSE "write failed"
  /\ UNCHANGED <<isPollingActive, readCount, pollingStartTime, pollingTimers,
                 liveTimers, connected, registry, cache, starts, regs, unregs,
                 writes, now, views, mark>>

\* the device call in flight throws: pollDataPoint issues the saveCache of the
\* error record; writeData ends with the error
LinkThrew ==
  /\ inFlight # <<>>
  /\ LET req == Head(inFlight)
         rel == GateRelease(gateQueue, inFlight)
     IN /\ gateQueue' = rel.gateQueue
        /\ inFlight' = rel.inFlight
        /\ IF req.kind = "poll"
           THEN /\ saves' = saves (+) BagOf(Save("poll", "catch", req.dp,
                     CacheEntry(getEmptyValueForType(req.dp.type), "read failed", now)))
                /\ writeResult' = writeResult
           ELSE /\ saves' = saves
                /\ writeResult' = "write failed"
  /\ UNCHANGED <<isPollingActive, readCount, pollingStartTime, pollingTimers,
                 liveTimers, connected, registry, cache, starts, regs, unregs,
                 writes, now, views, mark>>

\* -------------------------------------------------------------- cache store

\* the cache store executes a saveCache: upsert of the row of the key; a
\* writeData that awaited it returns
saveCache ==
  \E sv \in DOMAIN saves :
    /\ cache' = [cache EXCEPT ![sv.dp.key] = sv.entry]
    /\ saves' = saves (-) BagOf(sv)
    /\ writeResult' = IF sv.by = "write" THEN "returned" ELSE writeResult
    /\ UNCHANGED <<isPollingActive, readCount, pollingStartTime, pollingTimers,
                   liveTimers, connected, registry, starts, regs, unregs, writes,
                   gateQueue, inFlight, now, views, mark>>

\* a saveCache throws: in the try block of pollDataPoint the catch block then
\* issues the saveCache of the error record; anywhere else the call ends
saveCache_failed ==
  \E sv \in DOMAIN saves :
    /\ saves' = IF sv.by = "poll" /\ sv.phase = "try"
                THEN (saves (-) BagOf(sv)) (+) BagOf(Save("poll", "catch", sv.dp,
                       CacheEntry(getEmptyValueForType(sv.dp.type), "save failed", now)))
                ELSE saves (-) BagOf(sv)
    /\ writeResult' = IF sv.by = "write" THEN "save failed" ELSE writeResult
    /\ UNCHANGED <<isPollingActive, readCount, pollingStartTime, pollingTimers,
                   liveTimers, connected, registry, cache, starts, regs, unregs,
                   writes, gateQueue, inFlight, now, views, mark>>

\* ---------------------------------------------------------------- writeData
WriteCall(key, value) == [key |-> key, value |-> value]

\* WriteValid without the checks of the value against the type
WriteValid_noTypeCheck(dp, value) ==
  /\ getDeviceCode(dp.addressType) # ""
  /\ dp.type \in {"number", "string", "bool"}

\* the value passes the checks of writeData for the definition
WriteValid(dp, value) ==
  /\ getDeviceCode(dp.addressType) # ""
  /\ CASE dp.type = "number" -> value.kind = "number"
       [] dp.type = "string" -> value.kind = "string"
       [] dp.type = "bool" -> value.kind = "bool" /\ dp.bit # Undefined /\ dp.bit # Null
       [] OTHER -> FALSE

\* the write primitive of the link writeData calls for a type
WriteOp(type) ==
  CASE type = "number" -> "writeNumbers"
    [] type = "string" -> "writeString"
    [] OTHER -> "writeBit"

\* writeData calls that have started and not yet finished
WritesInProgress ==
  BagCardinality(writes)
  + SumOver([k \in Keys |-> SeqCount(gateQueue, "write", k) + SeqCount(inFlight, "write", k)
                            + BagCount(saves, DOMAIN saves, "write", k)], Keys)

\* writeData up to await db.findDataPoint
writeData ==
  \E key \in Keys, value \in WriteValues :
    /\ WritesInProgress < MaxWrites
    /\ writes' = writes (+) BagOf(WriteCall(key, value))
    /\ UNCHANGED <<isPollingActive, readCount, pollingStartTime, pollingTimers,
                   liveTimers, connected, registry, cache, starts, regs, unregs,
                   gateQueue, inFlight, saves, now, views, writeResult, mark>>

\* writeData_found that issues the save of the value together with the device write
writeData_found_cacheFirst ==
  \E call \in DOMAIN writes :
    /\ writes' = writes (-) BagOf(call)
    /\ LET dp == registry[call.key]
       IN IF dp = NoDef
          THEN /\ writeResult' = "Data point not found"
               /\ UNCHANGED <<pollingTimers, liveTimers, gateQueue, inFlight, saves>>
          ELSE IF ~WriteValid(dp, call.value)
          THEN /\ writeResult' = "BadRequestException"
               /\ UNCHANGED <<pollingTimers, liveTimers, gateQueue, inFlight, saves>>
          ELSE /\ writeResult' = writeResult
               /\ SetSched([GateSubmit(Sched, Request("write", WriteOp(dp.type), dp, call.value))
                              EXCEPT !.saves = @ (+) BagOf(Save("write", "try", dp,
                                                   CacheEntry(call.value, NoError, now)))])
    /\ UNCHANGED <<isPollingActive, readCount, pollingStartTime, connected, registry,
                   cache, starts, regs, unregs, now, views, mark>>

\* writeData_found that saves the value of a key that has no definition
writeData_found_savesUnknownKey ==
  \E call \in DOMAIN writes :
    /\ writes' = writes (-) BagOf(call)
    /\ LET dp == registry[call.key]
       IN IF dp = NoDef
          THEN /\ writeResult' = writeResult
               /\ saves' = saves (+) BagOf(Save("write", "try", [dp EXCEPT !.key = call.key],
                                                CacheEntry(call.value, NoError, now)))
               /\ UNCHANGED <<pollingTimers, liveTimers, gateQueue, inFlight>>
          ELSE IF ~WriteValid(dp, call.value)
          THEN /\ writeResult' = "BadRequestException"
               /\ UNCHANGED <<pollingTimers, liveTimers, gateQueue, inFlight, saves>>
          ELSE /\ writeResult' = writeResult
               /\ SetSched(GateSubmit(Sched, Request("write", WriteOp(dp.type), dp, call.value)))
    /\ UNCHANGED <<isPollingActive, readCount, pollingStartTime, connected, registry,
                   cache, starts, regs, unregs, now, views, mark>>

\* await db.findDataPoint has returned: the checks, then the device write is
\* requested; a missing definition or a failed check ends the call with the error
writeData_found ==
  \E call \in DOMAIN writes :
    /\ writes' = writes (-) BagOf(call)
    /\ LET dp == registry[call.key]
       IN IF dp = NoDef
          THEN /\ writeResult' = "Data point not found"
               /\ UNCHANGED <<pollingTimers, liveTimers, gateQueue, inFlight, saves>>
          ELSE IF ~WriteValid(dp, call.value)
          THEN /\ writeResult' = "BadRequestException"
               /\ UNCHANGED <<pollingTimers, liveTimers, gateQueue, inFlight, saves>>
          ELSE /\ writeResult' = writeResult
               /\ SetSched(GateSubmit(Sched, Request("write", WriteOp(dp.type), dp, call.value)))
    /\ UNCHANGED <<isPollingActive, readCount, pollingStartTime, connected, registry,
                   cache, starts, regs, unregs, now, views, mark>>

\* --------------------------------------------------------------------- Next

\* the scheduler: start, stop, register and unregister in every interleaving,
\* with the polls their timers initiate running to completion
Next ==
  \/ startPolling
  \/ startPolling_connected
  \/ startPolling_connectFailed
  \/ startPolling_findAll
  \/ startPolling_loop
  \/ stopPolling
  \/ registerDataPoint
  \/ registerDataPoint_create
  \/ registerDataPoint_rejected
  \/ registerDataPoint_saved
  \/ unregisterDataPoint
  \/ unregisterDataPoint_deleted
  \/ unregisterDataPoint_failed
  \/ Tick
  \/ LinkReturned
  \/ saveCache

Spec == Init /\ [][Next]_vars

\* the device link in steady operation: every Dto is registered, polling was
\* started and the startPolling loop has just initiated the first poll of each
\* key; from there polls of the running timers and caller-initiated writes
\* compete for the link, device calls and cache saves may fail
RegisteredAll == [k \in Keys |-> DataPointOf(CHOOSE dto \in Dtos : dto.key = k)]

InitGate ==
  /\ isPollingActive = TRUE
  /\ readCount = 0
  /\ pollingStartTime = 0
  /\ pollingTimers = [k \in Keys |-> IF k = "k1" THEN 1 ELSE 2]
  /\ liveTimers = {[id |-> 1, dp |-> RegisteredAll["k1"]], [id |-> 2, dp |-> RegisteredAll["k2"]]}
  /\ connected = TRUE
  /\ registry = RegisteredAll
  /\ cache = [k \in Keys |-> NoEntry]
  /\ starts = EmptyBag
  /\ regs = EmptyBag
  /\ unregs = EmptyBag
  /\ writes = EmptyBag
  /\ gateQueue = <<Request("poll", "readBit", RegisteredAll["k2"], getEmptyValueForType("bool"))>>
  /\ inFlight = <<Request("poll", "readNumbers", RegisteredAll["k1"], getEmptyValueForType("number"))>>
  /\ saves = EmptyBag
  /\ now = 0
  /\ writeResult = "-"
  /\ mark = [k \in Keys |-> "-"]
  /\ InitViews

NextGate ==
  \/ Tick
  \/ LinkReturned
  \/ LinkThrew
  \/ saveCache
  \/ saveCache_failed
  \/ writeData
  \/ writeData_found
  \/ stopPolling

SpecGate == InitGate /\ [][NextGate]_vars

\* violated under Spec: the initial state of SpecGate is a state Spec reaches
GateStartUnreachable == ~InitGate

\* two keys share the link while the device reads of k1 fail: a read of k1
\* throws or stays on the link, a read of k2 returns.  The event loop runs the
\* callback of a live timer, the link returns the reads of k2 and the cache
\* store executes the saves of k2; nothing makes a read of k1 come back, and
\* the saves of k1 may fail as well.  Callers write to both keys meanwhile.
LinkThrewFor(key) ==
  /\ inFlight # <<>>
  /\ Head(inFlight).dp.key = key
  /\ LinkThrew

LinkReturnedFor(key) ==
  /\ inFlight # <<>>
  /\ Head(inFlight).dp.key = key
  /\ LinkReturned

saveCacheFor(key) ==
  /\ saveCache
  /\ \E sv \in DOMAIN saves : sv.dp.key = key /\ saves' = saves (-) BagOf(sv)

saveCacheFailedFor(key) ==
  /\ saveCache_failed
  /\ \E sv \in DOMAIN saves :
       sv.dp.key = key /\ CopiesIn(sv, saves') < CopiesIn(sv, saves)

NextIso ==
  \/ Tick
  \/ LinkThrewFor("k1")
  \/ LinkReturnedFor("k2")
  \/ saveCache
  \/ saveCacheFailedFor("k1")
  \/ writeData
  \/ writeData_found

SpecIso ==
  /\ InitGate
  /\ [][NextIso]_vars
  /\ WF_vars(Tick)
  /\ WF_vars(LinkReturnedFor("k2"))
  /\ WF_vars(saveCacheFor("k2"))

\* the life of one key that is registered, polled, unregistered and registered
\* again with another type
NextRereg ==
  \/ startPolling
  \/ startPolling_connected
  \/ startPolling_findAll
  \/ startPolling_loop
  \/ stopPolling
  \/ registerDataPoint_retyped
  \/ registerDataPoint_create
  \/ registerDataPoint_rejected
  \/ registerDataPoint_saved
  \/ unregisterDataPoint
  \/ unregisterDataPoint_deleted
  \/ Tick
  \/ LinkReturned
  \/ saveCache

SpecRereg == Init /\ [][NextRereg]_vars

\* one poll and one write at a time, over every kind of definition: k1 was
\* registered with one of PollDtos, k2 is not registered, polling was started
\* and the startPolling loop has just created the timer of k1 and initiated its
\* first poll; from there the timer ticks, callers write to both keys, device
\* calls and cache saves return or throw
NoSched == [pollingTimers |-> [k \in Keys |-> NoTimer], liveTimers |-> {},
            gateQueue |-> <<>>, inFlight |-> <<>>, saves |-> EmptyBag]

InitPoll ==
  \E dto \in PollDtos :
    LET dp == DataPointOf(dto)
        s == StartAll(NoSched, <<dp>>)
    IN /\ now = 0
       /\ isPollingActive = TRUE
       /\ readCount = 0
       /\ pollingStartTime = 0
       /\ pollingTimers = s.pollingTimers
       /\ liveTimers = s.liveTimers
       /\ connected = TRUE
       /\ registry = [k \in Keys |-> IF k = dp.key THEN dp ELSE NoDef]
       /\ cache = [k \in Keys |-> NoEntry]
       /\ starts = EmptyBag
       /\ regs = EmptyBag
       /\ unregs = EmptyBag
       /\ writes = EmptyBag
       /\ gateQueue = s.gateQueue
       /\ inFlight = s.inFlight
       /\ saves = s.saves
       /\ writeResult = "-"
       /\ mark = [k \in Keys |-> "-"]
       /\ InitViews

NextPoll ==
  \/ Tick
  \/ LinkReturned
  \/ LinkThrew
  \/ saveCache
  \/ saveCache_failed
  \/ writeData
  \/ writeData_found

SpecPoll == InitPoll /\ [][NextPoll]_vars

\* the first poll of k1 against the writes of callers: as SpecPoll, but the
\* timer does not tick again, so the only poll of a behaviour is the one whose
\* device read is on the link (or has failed before it) in the initial state.
\* The link serves the requests in order, so every write to the device comes
\* after that read.
NextFirstPoll ==
  \/ LinkReturned
  \/ LinkThrew
  \/ saveCache
  \/ saveCache_failed
  \/ writeData
  \/ writeData_found

SpecFirstPoll == InitPoll /\ [][NextFirstPoll]_vars

\* ----------------------------------------------------------------- readData

\* getCacheItem: the row db.findCache returns, NoEntry for null
getCacheItem(key) == cache[key]

\* a response of readData: the NotFoundException, or value, timestamp and error
NotFoundException ==
  [status |-> "NotFoundException", kind |-> "-", words |-> <<>>, text |-> "",
   bool |-> FALSE, timestamp |-> 0, error |-> NoError]

PlcDataResponse(item) ==
  [status |-> "ok", kind |-> item.kind, words |-> item.words, text |-> item.text,
   bool |-> item.bool, timestamp |-> item.timestamp, error |-> item.error]

\* readData without the check of the item for null
readData_noNullCheck(key) == PlcDataResponse(getCacheItem(key))

\* PlcController.readData of the key in the current state
readData(key) ==
  LET item == getCacheItem(key)
  IN IF ~item.present THEN NotFoundException ELSE PlcDataResponse(item)

\* -------------------------------------------------------- getPollingMetrics

\* the wall clock moves on by half a second
Advance ==
  /\ now + 500 <= MaxSeconds * 1000
  /\ now' = now + 500
  /\ UNCHANGED <<service, views>>

\* Math.floor((Date.now() - pollingStartTime.getTime()) / 1000)
elapsedSeconds == (now - pollingStartTime) \div 1000

\* readsPerSecond with the quotient rounded up
readsPerSecond_roundedUp ==
  IF elapsedSeconds > 0
  THEN (readCount + elapsedSeconds - 1) \div elapsedSeconds
  ELSE 0

readsPerSecond ==
  IF elapsedSeconds > 0 THEN readCount \div elapsedSeconds ELSE 0

ZeroMetrics == [readCount |-> 0, readsPerSecond |-> 0, elapsedSeconds |-> 0]

\* getPollingMetrics without its first if statement
getPollingMetrics_unguarded ==
  /\ metrics' = [readCount |-> readCount, readsPerSecond |-> 0, elapsedSeconds |-> 0]
  /\ UNCHANGED <<service, now, formData, submits, tag, dsValues, rendered>>

getPollingMetrics ==
  /\ metrics' = IF ~isPollingActive \/ pollingStartTime = Null
                THEN ZeroMetrics
                ELSE [readCount |-> readCount,
                      readsPerSecond |-> readsPerSecond,
                      elapsedSeconds |-> elapsedSeconds]
  /\ UNCHANGED <<service, now, formData, submits, tag, dsValues, rendered>>

\* a Running period observed some time after its start: k1 is registered as a
\* number definition, its timer is live and a poll of it is on the link; the
\* period began at pollingStartTime and has counted readCount reads.  Callers
\* ask for the metrics while the clock moves on, the poll returns or throws,
\* the scheduler is stopped and a startPolling switches it on again (that
\* call is followed up to its await of findAllDataPoints).
MetricsDto == CHOOSE dto \in Dtos : dto.key = "k1"

InitMetrics ==
  \E reads \in 0..MaxReads, start \in {0, 250},
     elapsed \in {sec * 1000 + ms : sec \in 0..(MaxSeconds - 1), ms \in {0, 999}} :
    LET dp == DataPointOf(MetricsDto)
        s == StartAll(NoSched, <<dp>>)
    IN /\ now = start + elapsed
       /\ isPollingActive = TRUE
       /\ readCount = reads
       /\ pollingStartTime = start
       /\ pollingTimers = s.pollingTimers
       /\ liveTimers = s.liveTimers
       /\ connected = TRUE
       /\ registry = [k \in Keys |-> IF k = dp.key THEN dp ELSE NoDef]
       /\ cache = [k \in Keys |-> NoEntry]
       /\ starts = EmptyBag
       /\ regs = EmptyBag
       /\ unregs = EmptyBag
       /\ writes = EmptyBag
       /\ gateQueue = s.gateQueue
       /\ inFlight = s.inFlight
       /\ saves = s.saves
       /\ writeResult = "-"
       /\ mark = [k \in Keys |-> "-"]
       /\ InitViews

NextMetrics ==
  \/ getPollingMetrics
  \/ Advance
  \/ stopPolling
  \/ startPolling
  \/ LinkReturned
  \/ LinkThrew
  \/ saveCache

SpecMetrics == InitMetrics /\ [][NextMetrics]_vars

\* startPolling called while startPolling calls are suspended at their awaits
startPolling_overlapping ==
  /\ BagCardinality(starts) \in 1..MaxStarts
  /\ IF PollingAlreadyActive
     THEN UNCHANGED <<isPollingActive, readCount, pollingStartTime, starts, connected, mark>>
     ELSE IF ~connected
          THEN /\ starts' = starts (+) BagOf(StartCall("connect", {}))
               /\ UNCHANGED <<isPollingActive, readCount, pollingStartTime, connected, mark>>
          ELSE /\ Activate(EmptyBag)
               /\ UNCHANGED connected
  /\ UNCHANGED <<pollingTimers, liveTimers, registry, cache, regs, unregs, writes,
                 gateQueue, inFlight, saves, now, views, writeResult>>

\* callers start the Stopped scheduler while the connection is down or up:
\* k1 is registered, no timer exists; a startPolling call is made, further
\* calls are made while it is suspended at connect or at findAllDataPoints,
\* the connect of a call returns or throws, and the clock moves on
InitStarts ==
  /\ isPollingActive = FALSE
  /\ readCount = 0
  /\ pollingStartTime = Null
  /\ pollingTimers = [k \in Keys |-> NoTimer]
  /\ liveTimers = {}
  /\ connected \in BOOLEAN
  /\ registry = [k \in Keys |-> IF k = "k1" THEN DataPointOf(MetricsDto) ELSE NoDef]
  /\ cache = [k \in Keys |-> NoEntry]
  /\ starts = EmptyBag
  /\ regs = EmptyBag
  /\ unregs = EmptyBag
  /\ writes = EmptyBag
  /\ gateQueue = <<>>
  /\ inFlight = <<>>
  /\ saves = EmptyBag
  /\ now = 0
  /\ writeResult = "-"
  /\ mark = [k \in Keys |-> "-"]
  /\ InitViews

NextStarts ==
  \/ startPolling
  \/ startPolling_overlapping
  \/ startPolling_connected
  \/ startPolling_connectFailed
  \/ startPolling_findAll
  \/ startPolling_loop
  \/ Advance

SpecStarts == InitStarts /\ [][NextStarts]_vars

\* ------------------------------------------------------------- RegisterPage

NaN == -3                    \* the number parseInt returns for a text without leading digits

\* the texts typed into the inputs of the numeric fields, as characters
Digit == [c \in {"0", "1", "2", "3", "4", "5", "6", "7", "8", "9"} |->
            CASE c = "0" -> 0 [] c = "1" -> 1 [] c = "2" -> 2 [] c = "3" -> 3
              [] c = "4" -> 4 [] c = "5" -> 5 [] c = "6" -> 6 [] c = "7" -> 7
              [] c = "8" -> 8 [] OTHER -> 9]

RECURSIVE ParseDigits(_, _)
ParseDigits(text, acc) ==
  IF text = <<>> \/ Head(text) \notin DOMAIN Digit THEN acc
  ELSE ParseDigits(Tail(text), acc * 10 + Digit[Head(text)])

\* parseInt(value, 10) of a text of digits: NaN for the empty text
parseInt(text) ==
  IF text = <<>> \/ Head(text) \notin DOMAIN Digit THEN NaN
  ELSE ParseDigits(text, 0)

\* what the user selects or types: the key, the description, the type
TextInputs ==
  { [name |-> "key", value |-> "k1"],
    [name |-> "description", value |-> "d"],
    [name |-> "type", value |-> "number"],
    [name |-> "type", value |-> "bool"] }

\* what the user types into the numeric inputs: a bit, an empty input, a
\* polling interval below, at and above the minimum of the input
NumericInputs ==
  { [name |-> "bit", value |-> <<"3">>],
    [name |-> "bit", value |-> <<>>],
    [name |-> "pollingInterval", value |-> <<"5", "0">>],
    [name |-> "pollingInterval", value |-> <<"1", "0", "0">>] }

\* the input of the field is in the form: the bit input is rendered for the
\* type bool only
Rendered(name) == name = "bit" => formData.type = "bool"

\* handleInputChange: a numeric field gets parseInt of the text, 0 for NaN; any
\* other field gets the text
handleInputChange ==
  /\ \/ \E e \in TextInputs :
          /\ Rendered(e.name)
          /\ formData' = [formData EXCEPT ![e.name] = e.value]
     \/ \E e \in NumericInputs :
          /\ Rendered(e.name)
          /\ LET num == parseInt(e.value)
             IN formData' = [formData EXCEPT ![e.name] = IF num = NaN THEN 0 ELSE num]
  /\ UNCHANGED <<service, now, metrics, submits, tag, dsValues, rendered>>

\* the constraints of the inputs the browser checks before the submit event:
\* required key and description, length min 1, bit 0..15 where its input is
\* rendered (it shows 0 for an absent bit), pollingInterval min 100 step 100
FormIsValid ==
  /\ formData.key # ""
  /\ formData.description # ""
  /\ formData.length >= 1
  /\ formData.type = "bool" =>
       LET shown == IF formData.bit \in {Undefined, Null} THEN 0 ELSE formData.bit
       IN shown >= 0 /\ shown <= 15
  /\ formData.pollingInterval >= 100
  /\ (formData.pollingInterval - 100) % 100 = 0

\* handleSubmit up to await registerDataPoint(formData): the checks of the
\* handler, then the request to the backend with formData as its body
handleSubmit ==
  /\ FormIsValid
  /\ IF \/ formData.key = "" \/ formData.description = ""
        \/ formData.type = "bool" /\ formData.bit \in {Undefined, Null}
     THEN UNCHANGED <<regs, submits>>
     ELSE /\ BagCardinality(regs) < MaxRegs
          /\ BagCardinality(submits) < MaxRegs
          /\ regs' = regs (+) BagOf(RegCall("create", DataPointOf(formData)))
          /\ submits' = submits (+) BagOf(formData)
  /\ UNCHANGED <<isPollingActive, readCount, pollingStartTime, pollingTimers,
                 liveTimers, connected, registry, cache, starts, unregs, writes,
                 gateQueue, inFlight, saves, now, writeResult, mark,
                 metrics, formData, tag, dsValues, rendered>>

\* the registerDataPoint call of the submitted body is over
Answered(body) == \A call \in DOMAIN regs : call.dp # DataPointOf(body)

\* await registerDataPoint has returned: the form is reset
handleSubmit_registered ==
  \E body \in DOMAIN submits :
    /\ Answered(body)
    /\ registry[body.key] = DataPointOf(body)
    /\ formData' = InitialFormData
    /\ submits' = submits (-) BagOf(body)
    /\ UNCHANGED <<service, now, metrics, tag, dsValues, rendered>>

\* await registerDataPoint has thrown: the form stays as it is
handleSubmit_failed ==
  \E body \in DOMAIN submits :
    /\ Answered(body)
    /\ submits' = submits (-) BagOf(body)
    /\ UNCHANGED <<service, now, metrics, formData, tag, dsValues, rendered>>

\* request bodies sent to POST /plc/data-points by a client other than the
\* form: polling intervals below the floor of 100 ms
BelowFloorDtos ==
  { [key |-> "k2", addressType |-> "D", type |-> "number", bit |-> Undefined,
     length |-> 1, pollingInterval |-> 50],
    [key |-> "k2", addressType |-> "D", type |-> "number", bit |-> Undefined,
     length |-> 1, pollingInterval |-> 99] }

\* registerDataPoint called with a body of BelowFloorDtos
registerDataPoint_belowFloor ==
  \E dto \in BelowFloorDtos :
    /\ BagCardinality(regs) < MaxRegs
    /\ regs' = regs (+) BagOf(RegCall("create", DataPointOf(dto)))
    /\ UNCHANGED <<isPollingActive, readCount, pollingStartTime, pollingTimers,
                   liveTimers, connected, registry, cache, starts, unregs, writes,
                   gateQueue, inFlight, saves, now, views, writeResult, mark>>

\* registration through the form of RegisterPage and through the endpoint
\* while the scheduler is Running: startPolling has completed with the
\* connection up and no definition in the registry, the page is as mounted
InitForm ==
  /\ isPollingActive = TRUE
  /\ readCount = 0
  /\ pollingStartTime = 0
  /\ pollingTimers = [k \in Keys |-> NoTimer]
  /\ liveTimers = {}
  /\ connected = TRUE
  /\ registry = [k \in Keys |-> NoDef]
  /\ cache = [k \in Keys |-> NoEntry]
  /\ starts = EmptyBag
  /\ regs = EmptyBag
  /\ unregs = EmptyBag
  /\ writes = EmptyBag
  /\ gateQueue = <<>>
  /\ inFlight = <<>>
  /\ saves = EmptyBag
  /\ now = 0
  /\ writeResult = "-"
  /\ mark = [k \in Keys |-> "-"]
  /\ InitViews

NextForm ==
  \/ handleInputChange
  \/ handleSubmit
  \/ handleSubmit_registered
  \/ handleSubmit_failed
  \/ registerDataPoint_belowFloor
  \/ registerDataPoint_create
  \/ registerDataPoint_rejected
  \/ registerDataPoint_saved

SpecForm == InitForm /\ [][NextForm]_vars

\* --------------------------------------------------------- DataSetCachePage

\* JavaScript's bitwise operators work on 32-bit two's-complement integers
MinInt32 == -2147483647 - 1
MaxInt32 == 2147483647

\* the 32 bits of an integer of that range, least significant first; bit 32
\* is the sign
BitsOf(n) ==
  [i \in 1..32 |-> IF i = 32 THEN (IF n < 0 THEN 1 ELSE 0)
                              ELSE (n \div 2^(i - 1)) % 2]

RECURSIVE LowValue(_, _)
LowValue(bits, i) ==
  IF i > 31 THEN 0 ELSE bits[i] + 2 * LowValue(bits, i + 1)

\* the integer of 32 bits: bit 32 is the sign
Int32Of(bits) ==
  IF bits[32] = 1 THEN LowValue(bits, 1) + MinInt32 ELSE LowValue(bits, 1)

\* x << n
ShiftLeft(x, n) ==
  LET b == BitsOf(x)
      k == n % 32
  IN Int32Of([i \in 1..32 |-> IF i <= k THEN 0 ELSE b[i - k]])

\* x >> n (the sign bit is propagated)
ShiftRight(x, n) ==
  LET b == BitsOf(x)
      k == n % 32
  IN Int32Of([i \in 1..32 |-> IF i + k <= 32 THEN b[i + k] ELSE b[32]])

\* x | y
BitOr(x, y) ==
  LET bx == BitsOf(x)
      by == BitsOf(y)
  IN Int32Of([i \in 1..32 |-> IF bx[i] = 1 \/ by[i] = 1 THEN 1 ELSE 0])

\* x & y
BitAnd(x, y) ==
  LET bx == BitsOf(x)
      by == BitsOf(y)
  IN Int32Of([i \in 1..32 |-> IF bx[i] = 1 /\ by[i] = 1 THEN 1 ELSE 0])

\* the words a data set can hold: the ends of the 16-bit range, the sign
\* boundary, single bits, alternating bits
Words == {0, 1, 256, 21845, 32767, 32768, 43690, 65535}

RECURSIVE WordSeqs(_)
WordSeqs(n) ==
  IF n = 0 THEN {<<>>}
  ELSE WordSeqs(n - 1) \cup
       {Append(ws, w) : ws \in {x \in WordSeqs(n - 1) : Len(x) = n - 1}, w \in Words}

\* a 32-bit float at the first and at the second word
RealTags ==
  {[offset |-> o, dataType |-> "real", wordLength |-> 2,
    bitPosition |-> Undefined] : o \in {0, 1}}

\* the tags of the page: a 16-bit integer, a 32-bit integer and every bit of
\* a word (and a bool tag without bitPosition), at the first and the second
\* word; a text of one word (wordLength absent or 1) and of two words; a float
Tags ==
  {[offset |-> o, dataType |-> "int16", wordLength |-> Undefined,
    bitPosition |-> Undefined] : o \in {0, 1}}
  \cup {[offset |-> o, dataType |-> "int32", wordLength |-> 2,
         bitPosition |-> Undefined] : o \in {0, 1}}
  \cup {[offset |-> o, dataType |-> "bool", wordLength |-> Undefined,
         bitPosition |-> b] : o \in {0, 1}, b \in (0..15) \cup {Undefined}}
  \cup {[offset |-> o, dataType |-> "string", wordLength |-> n,
         bitPosition |-> Undefined] : o \in {0, 1}, n \in {Undefined, 1, 2}}
  \cup RealTags

\* safe(idx): the word at the index, undefined outside the values
safe(values, idx) ==
  IF idx >= 0 /\ idx < Len(values) THEN values[idx + 1] ELSE Undefined

\* case "int16" with the sign boundary one word late
renderInt16_lateSign(w) ==
  RenderedNumber(IF w > 32768 THEN w - 65536 ELSE w)

\* case "int16" of renderTagValue, for a word that is there
renderInt16(w) ==
  RenderedNumber(IF w > 32767 THEN w - 65536 ELSE w)

\* case "int32" with the high word first
renderInt32_highFirst(lo, hi) ==
  LET val == BitOr(ShiftLeft(lo, 16), hi)
  IN RenderedNumber(IF val > MaxInt32 THEN val - MaxInt32 - MaxInt32 - 2 ELSE val)

\* case "int32" of renderTagValue, for two words that are there; 4294967296
\* is written as MaxInt32 + MaxInt32 + 2
renderInt32(lo, hi) ==
  LET val == BitOr(ShiftLeft(hi, 16), lo)
  IN RenderedNumber(IF val > MaxInt32 THEN val - MaxInt32 - MaxInt32 - 2 ELSE val)

\* case "bool" that tests bit 0 whatever the bit position
renderBool_noShift(w, bitPosition) ==
  RenderedText(IF BitAnd(w, 1) = 1 THEN "ON" ELSE "OFF")

\* case "bool" of renderTagValue, for a word that is there
renderBool(w, bitPosition) ==
  RenderedText(IF BitAnd(ShiftRight(w, bitPosition), 1) = 1 THEN "ON" ELSE "OFF")

\* case "string", first loop: the words at offset, offset + 1, ... up to
\* wordLength words; the loop ends at the first index outside the values
RECURSIVE stringWords(_, _, _, _)
stringWords(values, offset, wordLength, i) ==
  IF i >= wordLength THEN <<>>
  ELSE LET w == safe(values, offset + i)
       IN IF w = Undefined THEN <<>>
          ELSE <<w>> \o stringWords(values, offset, wordLength, i + 1)

\* the second loop in which a zero byte ends its word only: the loop goes on
\* with the next word
RECURSIVE stringBytes_nextWord(_)
stringBytes_nextWord(words) ==
  IF words = <<>> THEN <<>>
  ELSE LET lo == BitAnd(Head(words), 255)
           hi == BitAnd(ShiftRight(Head(words), 8), 255)
       IN (IF lo = 0 THEN <<>> ELSE IF hi = 0 THEN <<lo>> ELSE <<lo, hi>>)
          \o stringBytes_nextWord(Tail(words))

\* case "string", second loop: of every word the low byte w & 0xff, then the
\* high byte (w >> 8) & 0xff; the loop ends at the first byte that is zero
RECURSIVE stringBytes(_)
stringBytes(words) ==
  IF words = <<>> THEN <<>>
  ELSE LET lo == BitAnd(Head(words), 255)
           hi == BitAnd(ShiftRight(Head(words), 8), 255)
       IN IF lo = 0 THEN <<>>
          ELSE IF hi = 0 THEN <<lo>>
          ELSE <<lo, hi>> \o stringBytes(Tail(words))

\* case "string" of renderTagValue: the decoder maps every byte to one
\* character, so the text is given by its bytes
renderString(values, offset, wordLength) ==
  LET words == stringWords(values, offset, wordLength, 0)
  IN IF Len(words) = 0 THEN RenderedText("N/A")
     ELSE RenderedBytes(stringBytes(words))

\* view.setUint16(byteOffset, value, true): the low byte of the value at
\* byteOffset, the high byte behind it
setUint16(buf, byteOffset, value) ==
  [buf EXCEPT ![byteOffset + 1] = BitAnd(value, 255),
              ![byteOffset + 2] = BitAnd(ShiftRight(value, 8), 255)]

\* an IEEE-754 value: NaN, an infinity, or the finite number mant / 2^scale
\* (mant * 2^(-scale) for a negative scale), negated when neg
Float(class, neg, mant, scale) ==
  [class |-> class, neg |-> neg, mant |-> mant, scale |-> scale]

\* view.getFloat32(0, true): byte 4 of the buffer holds the sign and the upper
\* seven bits of the exponent, byte 3 its lowest bit and the top of the
\* fraction, bytes 2 and 1 the rest of the fraction
getFloat32(buf) ==
  LET sign == buf[4] \div 128
      exponent == (buf[4] % 128) * 2 + buf[3] \div 128
      fraction == (buf[3] % 128) * 65536 + buf[2] * 256 + buf[1]
  IN CASE exponent = 255 /\ fraction # 0 -> Float("NaN", FALSE, 0, 0)
       [] exponent = 255 /\ fraction = 0 -> Float("Infinity", sign = 1, 0, 0)
       [] exponent = 0 -> Float("finite", sign = 1, fraction, 149)
       [] OTHER -> Float("finite", sign = 1, 8388608 + fraction, 150 - exponent)

\* a * b = q * d + r with 0 <= r < d, for a < 2^24 and d <= 2^29, computed
\* without a product that leaves the 32-bit range
RECURSIVE MulDiv(_, _, _)
MulDiv(a, b, d) ==
  IF b = 0 THEN [q |-> 0, r |-> 0]
  ELSE LET h == MulDiv(a, b \div 2, d)
           r2 == 2 * h.r + (b % 2) * a
       IN [q |-> 2 * h.q + r2 \div d, r |-> r2 % d]

\* the integer part of 2 * 10^4 * mant / 2^scale, for mant < 2^scale or
\* scale > 23
TwiceTenThousandths(mant, scale) ==
  IF scale <= 29 THEN MulDiv(mant, 20000, 2^scale).q
  ELSE IF scale - 29 > 30 THEN 0
  ELSE MulDiv(mant, 20000, 2^29).q \div 2^(scale - 29)

\* toFixed(4) that cuts the digits behind the fourth
toFixed4_truncated(x) ==
  CASE x.class = "NaN" -> RenderedNaN
    [] x.class = "Infinity" -> RenderedInfinity(x.neg)
    [] x.scale <= 0 -> RenderedReal(x.neg, x.mant, 0, 0 - x.scale)
    [] OTHER ->
         LET whole == IF x.scale > 23 THEN 0 ELSE x.mant \div 2^x.scale
             rest == IF x.scale > 23 THEN x.mant ELSE x.mant % 2^x.scale
             n == TwiceTenThousandths(rest, x.scale) \div 2
         IN RenderedReal(x.neg /\ (whole # 0 \/ n # 0), whole, n, 0)

\* Number(x.toFixed(4)): toFixed takes the integer n for which n / 10^4 is
\* closest to the magnitude of x, the larger one of two, and writes it with
\* the sign of x; Number reads the digits back (the same number for -0.0000
\* and 0.0000; NaN and the infinities are written and read back by name; a
\* magnitude of 2^24 or more is an integer and comes back as it is)
toFixed4(x) ==
  CASE x.class = "NaN" -> RenderedNaN
    [] x.class = "Infinity" -> RenderedInfinity(x.neg)
    [] x.scale <= 0 -> RenderedReal(x.neg, x.mant, 0, 0 - x.scale)
    [] OTHER ->
         LET whole == IF x.scale > 23 THEN 0 ELSE x.mant \div 2^x.scale
             rest == IF x.scale > 23 THEN x.mant ELSE x.mant % 2^x.scale
             n == (TwiceTenThousandths(rest, x.scale) + 1) \div 2
             w == IF n = 10000 THEN whole + 1 ELSE whole
             f == IF n = 10000 THEN 0 ELSE n
         IN RenderedReal(x.neg /\ (w # 0 \/ f # 0), w, f, 0)

\* case "real" of renderTagValue, for two words that are there
renderReal(lo, hi) ==
  LET buf == setUint16(setUint16(<<0, 0, 0, 0>>, 0, lo), 2, hi)
  IN toFixed4(getFloat32(buf))

\* renderTagValue for the tags of Tags
renderTagValue(t, values) ==
  IF Len(values) = 0 THEN RenderedText("-")
  ELSE LET bitPosition == IF t.bitPosition = Undefined THEN 0 ELSE t.bitPosition
           wordLength == IF t.wordLength = Undefined THEN 1 ELSE t.wordLength
       IN CASE t.dataType = "int16" ->
                 LET w == safe(values, t.offset)
                 IN IF w = Undefined THEN RenderedText("N/A") ELSE renderInt16(w)
            [] t.dataType = "int32" ->
                 LET lo == safe(values, t.offset)
                     hi == safe(values, t.offset + 1)
                 IN IF lo = Undefined \/ hi = Undefined
                    THEN RenderedText("N/A") ELSE renderInt32(lo, hi)
            [] t.dataType = "real" ->
                 LET lo == safe(values, t.offset)
                     hi == safe(values, t.offset + 1)
                 IN IF lo = Undefined \/ hi = Undefined
                    THEN RenderedText("N/A") ELSE renderReal(lo, hi)
            [] t.dataType = "bool" ->
                 LET w == safe(values, t.offset)
                 IN IF w = Undefined THEN RenderedText("N/A")
                    ELSE renderBool(w, bitPosition)
            [] t.dataType = "string" -> renderString(values, t.offset, wordLength)
            [] OTHER -> RenderedText("N/A")

\* the page renders the value of the tag from the words it holds
render ==
  /\ rendered' = renderTagValue(tag, dsValues)
  /\ UNCHANGED <<service, now, metrics, formData, submits, tag, dsValues>>

\* the page has received one tag of Tags and the cached words of its data
\* set (setTags, setValues) and is about to render
InitRender ==
  /\ isPollingActive = FALSE
  /\ readCount = 0
  /\ pollingStartTime = Null
  /\ pollingTimers = [k \in Keys |-> NoTimer]
  /\ liveTimers = {}
  /\ connected = FALSE
  /\ registry = [k \in Keys |-> NoDef]
  /\ cache = [k \in Keys |-> NoEntry]
  /\ starts = EmptyBag
  /\ regs = EmptyBag
  /\ unregs = EmptyBag
  /\ writes = EmptyBag
  /\ gateQueue = <<>>
  /\ inFlight = <<>>
  /\ saves = EmptyBag
  /\ now = 0
  /\ writeResult = "-"
  /\ mark = [k \in Keys |-> "-"]
  /\ metrics = NoMetrics
  /\ formData = InitialFormData
  /\ submits = EmptyBag
  /\ tag \in Tags
  /\ dsValues \in WordSeqs(MaxWords)
  /\ rendered = NotRendered

NextRender == render

SpecRender == InitRender /\ [][NextRender]_vars

\* the words of floats: 1.5, -2.75, 0.1, pi, 0.03125 and -0.03125 (halfway
\* between two ten-thousandths), 9.99995 (rounds into the next integer),
\* 2.00005, 123456.78125, values around 0.00005, an infinity, and what else
\* the pairs of these words encode: zeros, denormals, NaNs, integers above 2^24
RealWords ==
  {0, 210, 4059, 8292, 52429, 65484, 14417, 15616, 15820, 16320, 16384, 16457,
   16671, 18417, 32640, 48384, 49200}

RECURSIVE RealWordSeqs(_)
RealWordSeqs(n) ==
  IF n = 0 THEN {<<>>}
  ELSE RealWordSeqs(n - 1) \cup
       {Append(ws, w) : ws \in {x \in RealWordSeqs(n - 1) : Len(x) = n - 1},
                        w \in RealWords}

\* the page has received a float tag and the cached words of its data set
InitReal ==
  /\ isPollingActive = FALSE
  /\ readCount = 0
  /\ pollingStartTime = Null
  /\ pollingTimers = [k \in Keys |-> NoTimer]
  /\ liveTimers = {}
  /\ connected = FALSE
  /\ registry = [k \in Keys |-> NoDef]
  /\ cache = [k \in Keys |-> NoEntry]
  /\ starts = EmptyBag
  /\ regs = EmptyBag
  /\ unregs = EmptyBag
  /\ writes = EmptyBag
  /\ gateQueue = <<>>
  /\ inFlight = <<>>
  /\ saves = EmptyBag
  /\ now = 0
  /\ writeResult = "-"
  /\ mark = [k \in Keys |-> "-"]
  /\ metrics = NoMetrics
  /\ formData = InitialFormData
  /\ submits = EmptyBag
  /\ tag \in RealTags
  /\ dsValues \in RealWordSeqs(MaxWords)
  /\ rendered = NotRendered

SpecReal == InitReal /\ [][NextRender]_vars

\* =================================================================== claims

\* a saveCache issued by a poll of the key is executed in this step
PollSavedFor(k) ==
  \E sv \in DOMAIN saves :
    /\ sv.by = "poll"
    /\ sv.dp.key = k
    /\ saves' = saves (-) BagOf(sv)
    /\ cache' = [cache EXCEPT ![k] = sv.entry]

\* a saveCache of the key, issued by a poll or by a write, is executed in this step
SavedFor(k) ==
  \E sv \in DOMAIN saves :
    /\ sv.dp.key = k
    /\ saves' = saves (-) BagOf(sv)
    /\ cache' = [cache EXCEPT ![k] = sv.entry]

\* C1: in every reachable state in which the scheduler is Stopped, no per-key
\* timer is active: pollingTimers is empty and no interval timer is live.
C1_StoppedHasNoTimer ==
  ~isPollingActive =>
    (liveTimers = {} /\ \A k \in Keys : pollingTimers[k] = NoTimer)

\* C2 (as claimed): once stopPolling has returned and until the next
\* startPolling, no poll creates or updates a cache entry.  A poll exists only
\* after a startPolling, and a startPolling with the connection up switches the
\* scheduler on at once, so these are the steps taken while it is Stopped.
C2_NoCacheUpdateAfterStop ==
  [][~isPollingActive => \A k \in Keys : ~PollSavedFor(k)]_vars

\* C2 (amended): a stopPolling that finds the scheduler Running leaves no timer
\* active (so none of them ticks again), initiates no poll and updates no cache
\* entry itself; the polls already in flight stay in flight and complete later.
C2_StopCancelsTimersOnly ==
  [][(stopPolling /\ isPollingActive) =>
       /\ ~isPollingActive'
       /\ liveTimers' = {}
       /\ \A k \in Keys : pollingTimers'[k] = NoTimer
       /\ cache' = cache
       /\ gateQueue' = gateQueue /\ inFlight' = inFlight /\ saves' = saves]_vars

\* C2 witness: the scheduler was stopped while a poll was in flight
C2_StoppedWithPollInFlight ==
  /\ ~isPollingActive
  /\ pollingStartTime = Null
  /\ liveTimers = {}
  /\ starts = EmptyBag
  /\ PollsInFlight(Sched) > 0

C4_OnePollPerKey == \A k \in Keys : PollsOf(Sched, k) <= 1

\* C5: every key that has an active timer is a key whose definition is present
\* in the registry (no timer for a deleted definition).
C5_TimerOnlyForRegistered ==
  \A k \in Keys : pollingTimers[k] # NoTimer => registry[k] # NoDef

\* C6: after unregisterDataPoint(k) has completed while polling was active, no
\* poll or write creates or updates the cache entry of k again, and the entry
\* it had is not removed.
C6_NoUpdateAfterUnregister ==
  [][\A k \in Keys :
       mark[k] = "unregisteredRunning" =>
         /\ ~SavedFor(k)
         /\ (cache[k].present => cache'[k] = cache[k])]_vars

\* C7: startPolling invoked while the scheduler is Running changes nothing:
\* not the mode, the metrics or the timers, and it attempts no connect, starts
\* no call to the registry and initiates no poll.
C7_StartWhileRunningIsNoOp ==
  [][(startPolling /\ isPollingActive) =>
       UNCHANGED <<isPollingActive, readCount, pollingStartTime, pollingTimers,
                   liveTimers, connected, starts, gateQueue, inFlight, saves,
                   registry, cache>>]_vars

\* C7 witness: a Running scheduler with timers and counted reads in which a
\* startPolling call can be made (the state before and after the no-op call)
C7_RunningAndStartCallable ==
  /\ isPollingActive
  /\ liveTimers # {}
  /\ readCount > 0
  /\ BagCardinality(starts) < MaxStarts

\* C8: at most one live interval timer per key, and every live interval timer
\* is the one pollingTimers records for its key.
C8_LiveTimersAreRecorded ==
  /\ \A t \in liveTimers : pollingTimers[t.dp.key] = t.id
  /\ \A t1, t2 \in liveTimers : t1.dp.key = t2.dp.key => t1 = t2

\* C8 witness: every key has a live timer while a registerDataPoint call is
\* about to restart the timer of its key
C8_RestartOfActiveTimer ==
  /\ \A k \in Keys : pollingTimers[k] # NoTimer
  /\ Cardinality(liveTimers) = Cardinality(Keys)
  /\ \E call \in DOMAIN regs :
       call.stage = "saved" /\ pollingTimers[call.dp.key] # NoTimer /\ isPollingActive

\* C9: a startPolling called in the Stopped state switches the scheduler on
\* with readCount 0 and the start time set, and on its completion the
\* scheduler is Running and every definition the registry returned has an
\* active timer at its own pollingInterval and one poll initiated at once.
C9_StartCompletesRunning ==
  [][/\ (~isPollingActive /\ isPollingActive') =>
          (readCount' = 0 /\ pollingStartTime' # Null)
     /\ \A call \in DOMAIN starts :
          (call.stage = "loop" /\ starts' = starts (-) BagOf(call)) =>
            /\ isPollingActive'
            /\ \A dp \in call.dataPoints :
                 /\ \E t \in liveTimers' :
                      /\ t.dp = dp
                      /\ t.dp.pollingInterval = dp.pollingInterval
                      /\ pollingTimers'[dp.key] = t.id
                 /\ PollsOf(Sched, dp.key)' = PollsOf(Sched, dp.key) + 1]_vars

\* C10: when registerDataPoint resumes after the definition was persisted, a
\* Running scheduler gets a timer for the key and one poll of it at once; a
\* Stopped scheduler gets no timer and no poll for that key until the next
\* startPolling switches it on.
C10_RegisterFollowsMode ==
  [][/\ \A call \in DOMAIN regs :
          (call.stage = "saved" /\ regs' = regs (-) BagOf(call) /\ isPollingActive) =>
            /\ \E t \in liveTimers' :
                 t.dp = call.dp /\ pollingTimers'[call.dp.key] = t.id
            /\ PollsOf(Sched, call.dp.key)' = PollsOf(Sched, call.dp.key) + 1
     /\ \A k \in Keys :
          mark'[k] = "registeredStopped" =>
            /\ pollingTimers'[k] = pollingTimers[k]
            /\ PollsOf(Sched, k)' <= PollsOf(Sched, k)]_vars

\* ------------------------------------------------- polls: failure and success

\* the failures of a poll before any device call: the address type has no
\* region code, a bool definition has no bit, the type is not a value type
FailsBeforeRead(dp) ==
  \/ getDeviceCode(dp.addressType) = ""
  \/ dp.type = "bool" /\ dp.bit \in {Undefined, Null}
  \/ dp.type \notin {"number", "string", "bool"}

\* the entry is an error record for a definition of the type: [] for number,
\* false for bool, "" for string (and for a type that is none of them), with
\* an error message
IsErrorRecord(entry, type) ==
  /\ entry.present
  /\ entry.error # NoError
  /\ CASE type = "number" -> entry.kind = "number" /\ entry.words = <<>>
       [] type = "bool" -> entry.kind = "bool" /\ entry.bool = FALSE
       [] OTHER -> entry.kind = "string" /\ entry.text = ""

\* this step issues one saveCache of an error record for the definition
IssuesErrorRecord(dp) ==
  \E sv \in DOMAIN saves' :
    /\ sv.by = "poll"
    /\ sv.dp = dp
    /\ IsErrorRecord(sv.entry, dp.type)
    /\ saves' = saves (+) BagOf(sv)

\* nothing of the callers of the poll changes: the mode, the timers, the
\* suspended calls and the result of writeData
CallersUntouched ==
  UNCHANGED <<isPollingActive, pollingTimers, liveTimers, starts, regs, unregs,
              writes, writeResult>>

\* C11: a poll that fails (no region code, bool without bit, unknown type, or
\* a device read that throws) issues the save of an error record - the empty
\* value of the definition's type and the failure message - and the cache
\* store puts exactly that record in the entry of the key; the failure changes
\* nothing of any caller.
C11_FailedPollStoresErrorRecord ==
  [][/\ \A t \in liveTimers :
          (liveTimers = {t} /\ FailsBeforeRead(t.dp) /\ Tick) =>
            /\ IssuesErrorRecord(t.dp)
            /\ gateQueue' = gateQueue /\ inFlight' = inFlight
            /\ CallersUntouched
     /\ (inFlight # <<>> /\ Head(inFlight).kind = "poll" /\ LinkThrew) =>
            /\ IssuesErrorRecord(Head(inFlight).dp)
            /\ CallersUntouched
     /\ \A sv \in DOMAIN saves :
          (sv.by = "poll" /\ sv.phase = "catch" /\ saveCache
           /\ saves' = saves (-) BagOf(sv)) =>
            /\ cache'[sv.dp.key] = sv.entry
            /\ IsErrorRecord(cache'[sv.dp.key], sv.dp.type)
            /\ CallersUntouched]_vars

\* C11 witness: the poll of a bool definition without bit has stored its
\* error record and the timer of the key is still live
C11_ErrorRecordStored ==
  /\ registry["k1"].type = "bool"
  /\ registry["k1"].bit = Undefined
  /\ cache["k1"].present
  /\ cache["k1"].kind = "bool"
  /\ cache["k1"].error # NoError
  /\ pollingTimers["k1"] # NoTimer

\* the read primitive that matches a value type
MatchingRead(type) ==
  CASE type = "number" -> "readNumbers"
    [] type = "string" -> "readString"
    [] OTHER -> "readBit"

\* C12: when the device read of a poll returns, the read was the one matching
\* the definition's type (readNumbers with its length, readString, readBit),
\* the poll issues the save of exactly the returned value with no error, and
\* the cache store puts exactly that in the entry of the key, whatever error an
\* earlier failed poll had left there.
C12_SuccessfulPollStoresReadValue ==
  [][/\ (inFlight # <<>> /\ Head(inFlight).kind = "poll" /\ LinkReturned) =>
          LET req == Head(inFlight)
          IN /\ req.op = MatchingRead(req.dp.type)
             /\ \E v \in ReadValues(req) :
                  /\ v.kind = req.dp.type
                  /\ req.dp.type = "number" => Len(v.words) = req.dp.length
                  /\ saves' = saves (+) BagOf(Save("poll", "try", req.dp,
                                                   CacheEntry(v, NoError, now)))
     /\ \A sv \in DOMAIN saves :
          (sv.by = "poll" /\ sv.phase = "try" /\ saveCache
           /\ saves' = saves (-) BagOf(sv)) =>
            /\ cache'[sv.dp.key] = sv.entry
            /\ cache'[sv.dp.key].error = NoError
            /\ cache'[sv.dp.key].kind = sv.dp.type]_vars

\* C12 witness: the entry of the key holds the error of a failed poll while
\* the save of a later successful read of a string definition is pending
C12_SuccessAfterFailure ==
  /\ cache["k1"].present
  /\ cache["k1"].error # NoError
  /\ \E sv \in DOMAIN saves :
       /\ sv.by = "poll" /\ sv.phase = "try" /\ sv.dp.key = "k1"
       /\ sv.dp.type = "string" /\ sv.entry.text = "ab"

PollFailureStep ==
  \/ \E t \in liveTimers : liveTimers = {t} /\ FailsBeforeRead(t.dp) /\ Tick
  \/ inFlight # <<>> /\ Head(inFlight).kind = "poll" /\ LinkThrew
  \/ /\ saveCache_failed
     /\ \E sv \in DOMAIN saves :
          sv.by = "poll" /\ CopiesIn(sv, saves') < CopiesIn(sv, saves)
  \/ /\ saveCache
     /\ \E sv \in DOMAIN saves :
          sv.by = "poll" /\ sv.phase = "catch" /\ saves' = saves (-) BagOf(sv)

\* C14: a failed poll, also one whose save of the error record fails, changes
\* neither the mode nor any timer, and every tick of the timer of a key
\* starts a new poll of that key.
C14_FailedPollKeepsSchedule ==
  [][/\ PollFailureStep => UNCHANGED <<isPollingActive, pollingTimers, liveTimers>>
     /\ \A t \in liveTimers :
          (liveTimers = {t} /\ Tick) =>
            PollsOf(Sched, t.dp.key)' = PollsOf(Sched, t.dp.key) + 1]_vars

\* C14 witness: the scheduler is Running with the timer of k1 live while the
\* save of the error record of a poll of k1 is pending after the save of its
\* value has thrown (the save of the error record can throw next)
C14_ErrorRecordSavePending ==
  /\ isPollingActive
  /\ \E t \in liveTimers : t.dp.key = "k1" /\ pollingTimers["k1"] = t.id
  /\ \E sv \in DOMAIN saves :
       sv.by = "poll" /\ sv.phase = "catch" /\ sv.entry.error = "save failed"

\* C15: in every reachable state the cache entry stored for a registered key
\* holds a value of the shape of its definition's type: a word sequence for
\* number, a boolean for bool, a string for string.
C15_CacheShapeMatchesDefinition ==
  \A k \in Keys :
    (registry[k] # NoDef /\ cache[k].present
     /\ registry[k].type \in {"number", "string", "bool"}) =>
      cache[k].kind = registry[k].type

\* ------------------------------------------------------ the error of an entry

\* the save sv is the one the cache store executes in this step
Executes(sv) == saveCache /\ saves' = saves (-) BagOf(sv)

\* a writeData for the key ends in failure in this step without a save
\* having been issued: the device write throws, or the definition is missing
\* or a check fails
DeviceWriteThrowsFor(k) ==
  /\ inFlight # <<>>
  /\ Head(inFlight).kind = "write"
  /\ Head(inFlight).dp.key = k
  /\ LinkThrew

WriteFailsFor(k) ==
  \/ DeviceWriteThrowsFor(k)
  \/ \E call \in DOMAIN writes :
       /\ call.key = k
       /\ registry[k] = NoDef \/ ~WriteValid(registry[k], call.value)
       /\ writeData_found
       /\ writes' = writes (-) BagOf(call)

\* C16 (as claimed): when an operation on a key ends in failure - a poll that
\* stores its error record, a write whose device write throws - the entry of
\* the key has its error present afterwards, and when one ends in success the
\* error is absent.
C16_ErrorTracksLastOperation ==
  [][\A k \in Keys :
       /\ \A sv \in DOMAIN saves :
            (sv.dp.key = k /\ Executes(sv)) =>
              (cache'[k].error # NoError <=> sv.phase = "catch")
       /\ (DeviceWriteThrowsFor(k) /\ cache'[k].present) => cache'[k].error # NoError]_vars

\* C16 (amended): the error of an entry is present exactly when the operation
\* that last updated the entry was a failed poll, and absent once a later poll
\* or write of the key succeeds and is stored; a write that fails issues no
\* save and leaves the entry, error included, as it was; nothing but an
\* executed save changes an entry.
C16_ErrorTracksLastStoredOperation ==
  [][\A k \in Keys :
       /\ \A sv \in DOMAIN saves :
            (sv.dp.key = k /\ Executes(sv)) =>
              /\ cache'[k].present
              /\ cache'[k].error # NoError <=> (sv.by = "poll" /\ sv.phase = "catch")
       /\ WriteFailsFor(k) => (cache'[k] = cache[k] /\ saves' = saves)
       /\ cache'[k] # cache[k] =>
            \E sv \in DOMAIN saves : sv.dp.key = k /\ Executes(sv)]_vars

\* C16 witness: a device write to k1 is on the link (it can throw next) while
\* the entry of k1 holds a value without error and no poll of k1 is under way
C16_WriteOnLinkOverCleanEntry ==
  /\ inFlight # <<>>
  /\ Head(inFlight).kind = "write"
  /\ Head(inFlight).dp.key = "k1"
  /\ cache["k1"].present
  /\ cache["k1"].error = NoError
  /\ PollsOf(Sched, "k1") = 0

\* ---------------------------------------------------------------- writeData

\* the call is the writeData call that resumes after findDataPoint in this step
Resumes(call) == writeData_found /\ writes' = writes (-) BagOf(call)

\* input that fails validation: the value is not of the definition's type, a
\* bool definition has no bit, the address type has no region code
FailsValidation(dp, value) ==
  \/ value.kind # dp.type
  \/ dp.type = "bool" /\ dp.bit \in {Undefined, Null}
  \/ getDeviceCode(dp.addressType) = ""

NoDeviceCallNoSave ==
  /\ gateQueue' = gateQueue
  /\ inFlight' = inFlight
  /\ saves' = saves
  /\ cache' = cache

\* C17: a writeData whose input fails validation ends with a validation error,
\* requests no device write, issues no save and leaves the cache unchanged.
C17_InvalidWriteRejected ==
  [][\A call \in DOMAIN writes :
       (/\ registry[call.key] # NoDef
        /\ FailsValidation(registry[call.key], call.value)
        /\ Resumes(call)) =>
         /\ writeResult' = "BadRequestException"
         /\ NoDeviceCallNoSave]_vars

\* C17 witness: a write to the number definition of k1, which only a value of
\* another type fails, was rejected while k1 has a cache entry
C17_MismatchedWriteRejected ==
  /\ registry["k1"].type = "number"
  /\ getDeviceCode(registry["k1"].addressType) = "D"
  /\ writeResult = "BadRequestException"
  /\ cache["k1"].present

\* C18: when the device write of a writeData throws, the call ends with that
\* error, issues no save, and the cache is exactly what it was.
C18_FailedWriteKeepsEntry ==
  [][\A k \in Keys :
       DeviceWriteThrowsFor(k) =>
         /\ writeResult' = "write failed"
         /\ saves' = saves
         /\ cache' = cache]_vars

\* C18 witness: a device write has thrown, no save is pending, and the entry
\* of k1 that a poll stored before is there
C18_WriteThrewOverEntry ==
  /\ writeResult = "write failed"
  /\ cache["k1"].present
  /\ cache["k1"].error = NoError
  /\ saves = EmptyBag

\* the write primitive that matches a value type
MatchingWrite(type) ==
  CASE type = "number" -> "writeNumbers"
    [] type = "string" -> "writeString"
    [] OTHER -> "writeBit"

\* the saves of writes to the key that are issued and not yet executed
WriteSavesOf(s, k) == BagCount(s.saves, DOMAIN s.saves, "write", k)

\* C19: a writeData that passes the checks requests exactly one device write,
\* the one matching the type, with the definition (region, address, bit) and
\* the value unchanged, and issues no save yet; the save of the value is
\* issued only in the step in which that device write returns; when the cache
\* store has executed it the call returns and the entry of the key holds the
\* value with no error.
C19_WriteThenCache ==
  [][/\ \A call \in DOMAIN writes :
          (/\ registry[call.key] # NoDef
           /\ registry[call.key].type \in {"number", "string", "bool"}
           /\ ~FailsValidation(registry[call.key], call.value)
           /\ Resumes(call)) =>
            LET dp == registry[call.key]
                req == [kind |-> "write", op |-> MatchingWrite(dp.type), dp |-> dp,
                        value |-> call.value]
            IN /\ \/ gateQueue' = Append(gateQueue, req) /\ inFlight' = inFlight
                  \/ inFlight' = Append(inFlight, req) /\ gateQueue' = gateQueue
               /\ saves' = saves
               /\ cache' = cache
     /\ \A k \in Keys :
          WriteSavesOf(Sched, k)' > WriteSavesOf(Sched, k) =>
            /\ inFlight # <<>>
            /\ Head(inFlight).kind = "write"
            /\ Head(inFlight).dp.key = k
            /\ LinkReturned
            /\ saves' = saves (+) BagOf(Save("write", "try", Head(inFlight).dp,
                            CacheEntry(Head(inFlight).value, NoError, now)))
     /\ \A sv \in DOMAIN saves :
          (sv.by = "write" /\ Executes(sv)) =>
            /\ writeResult' = "returned"
            /\ cache'[sv.dp.key] = sv.entry
            /\ cache'[sv.dp.key].error = NoError]_vars

\* C19 witness: a writeData of the text "hi" to the string definition of k1 has
\* returned and the entry of k1 holds "hi" with no error
C19_WrittenValueCached ==
  /\ writeResult = "returned"
  /\ registry["k1"].type = "string"
  /\ cache["k1"].kind = "string"
  /\ cache["k1"].text = "hi"
  /\ cache["k1"].error = NoError

\* C20: a writeData for a key that has no definition in the registry ends with
\* an error, requests no device write, issues no save and creates or changes
\* no cache entry.
C20_UnknownKeyRejected ==
  [][\A call \in DOMAIN writes :
       (registry[call.key] = NoDef /\ Resumes(call)) =>
         /\ writeResult' = "Data point not found"
         /\ NoDeviceCallNoSave]_vars

\* C20 witness: a writeData to the unregistered key k2 has ended with the
\* error and k2 has no cache entry
C20_UnknownKeyWriteEnded ==
  /\ registry["k2"] = NoDef
  /\ writeResult = "Data point not found"
  /\ cache["k2"] = NoEntry
  /\ writes = EmptyBag

\* the text fits the declared length of a string definition: length words of
\* two bytes each
TextFits(text, length) == Len(text) <= 2 * length

\* C21: a writeData of a text that does not fit the declared length of the
\* string definition ends with a validation error, requests no device write,
\* issues no save and leaves the cache unchanged.
C21_OverlongTextRejected ==
  [][\A call \in DOMAIN writes :
       (/\ registry[call.key].type = "string"
        /\ getDeviceCode(registry[call.key].addressType) # ""
        /\ call.value.kind = "string"
        /\ ~TextFits(call.value.text, registry[call.key].length)
        /\ Resumes(call)) =>
         /\ writeResult' = "BadRequestException"
         /\ NoDeviceCallNoSave]_vars

\* ------------------------------------------------------------------ metrics

\* a poll attempt ends in this step: its device read returns or throws, or the
\* poll fails before any read
PollAttemptEnds ==
  \/ inFlight # <<>> /\ Head(inFlight).kind = "poll" /\ (LinkReturned \/ LinkThrew)
  \/ \E t \in liveTimers : liveTimers = {t} /\ FailsBeforeRead(t.dp) /\ Tick

\* C22: while the scheduler is Running readCount goes up by one with every
\* poll attempt, successful or failed, and never goes down.
C22_EveryPollAttemptCounted ==
  [][isPollingActive =>
       /\ PollAttemptEnds => readCount' = readCount + 1
       /\ readCount' >= readCount]_vars

\* C23: a getPollingMetrics call made while the scheduler is Stopped returns
\* readCount 0, readsPerSecond 0 and elapsedSeconds 0, whatever the polls of
\* the period before have counted and whatever is still in flight.
C23_StoppedMetricsAreZero ==
  [][(getPollingMetrics /\ ~isPollingActive) => metrics' = ZeroMetrics]_vars

\* C23 witness: the scheduler is Stopped, a poll of the period before was
\* counted after the stop and its save is still pending, and the metrics
\* returned last are all zero
C23_ZeroWhileStoppedAfterReads ==
  /\ ~isPollingActive
  /\ readCount > 0
  /\ PollsInFlight(Sched) > 0
  /\ metrics = ZeroMetrics

\* C24: a getPollingMetrics call made while Running returns the readCount,
\* elapsedSeconds = floor((now - startTime) / 1000) and readsPerSecond =
\* floor(readCount / elapsedSeconds) when elapsedSeconds >= 1, and
\* readsPerSecond = 0 when less than one second has elapsed.
C24_RunningMetricsAreFloors ==
  [][(getPollingMetrics /\ isPollingActive) =>
       LET ms == now - pollingStartTime
           e == metrics'.elapsedSeconds
           r == metrics'.readsPerSecond
       IN /\ metrics'.readCount = readCount
          /\ e * 1000 <= ms /\ ms < (e + 1) * 1000
          /\ e >= 1 => (r * e <= readCount /\ readCount < (r + 1) * e)
          /\ ms < 1000 => r = 0]_vars

\* C24 witness: three reads in two seconds and a half were reported as one
\* read per second
C24_ThreeReadsInTwoSeconds ==
  /\ isPollingActive
  /\ readCount = 3
  /\ now - pollingStartTime \in 2000..2999
  /\ metrics = [readCount |-> 3, readsPerSecond |-> 1, elapsedSeconds |-> 2]

\* --------------------------------------------------------------- registration

\* C25: no definition with a pollingInterval below the floor of 100 ms is
\* persisted, and no interval timer runs with an interval below 100 ms.
C25_NoIntervalBelowFloor ==
  /\ \A k \in Keys : registry[k] # NoDef => registry[k].pollingInterval >= 100
  /\ \A t \in liveTimers : t.dp.pollingInterval >= 100

\* C26: every persisted definition has a bit position exactly when its type
\* is bool, whatever the form edits before the submit were.
C26_BitIffBool ==
  \A k \in Keys :
    registry[k] # NoDef =>
      (registry[k].bit \notin {Undefined, Null} <=> registry[k].type = "bool")

\* ------------------------------------------------------------------ readData

\* C27: readData of a key whose cache entry was never populated fails with
\* the not-found error; from the step in which the cache store executes the
\* save of a poll (with its value or with its error record) or of a write of
\* the key, readData returns the value, timestamp and error of that save, and
\* it goes on returning them until the next save of the key is executed; an
\* entry once populated stays populated.
C27_ReadFollowsCache ==
  /\ [](\A k \in Keys : ~cache[k].present <=> readData(k) = NotFoundException)
  /\ [][\A k \in Keys :
          /\ \A sv \in DOMAIN saves :
               (sv.dp.key = k /\ Executes(sv)) =>
                 /\ readData(k)'.status = "ok"
                 /\ readData(k)'.kind = sv.entry.kind
                 /\ readData(k)'.words = sv.entry.words
                 /\ readData(k)'.text = sv.entry.text
                 /\ readData(k)'.bool = sv.entry.bool
                 /\ readData(k)'.timestamp = sv.entry.timestamp
                 /\ readData(k)'.error = sv.entry.error
          /\ readData(k)' # readData(k) =>
               \E sv \in DOMAIN saves : sv.dp.key = k /\ Executes(sv)
          /\ cache[k].present => cache'[k].present]_vars

\* C27 witness: the failed poll of k1 has stored its error record, which
\* readData returns, while readData of k2, never polled or written, fails
C27_ErrorRecordReadable ==
  /\ readData("k1").status = "ok"
  /\ readData("k1").error # NoError
  /\ readData("k1").error = cache["k1"].error
  /\ readData("k2") = NotFoundException

\* ---------------------------------------------------------- tag projections

\* the word of the values at the offset of the tag
WordAt(i) == dsValues[tag.offset + i + 1]

\* C28: for an int32 tag whose two words lo, hi (low word first) are there,
\* the rendered number is the 32-bit two's-complement value of hi * 65536 + lo:
\* it lies in -2147483648..2147483647, its low 16 bits are lo and its high 16
\* bits are hi, so it is the unsigned value up to 2147483647 and the unsigned
\* value minus 4294967296 above; lo = hi = 65535 gives -1, lo = hi = 0 gives 0.
C28_Int32IsTwosComplement ==
  (rendered # NotRendered /\ tag.dataType = "int32" /\ tag.offset + 2 <= Len(dsValues)) =>
    LET lo == WordAt(0)
        hi == WordAt(1)
    IN /\ rendered.kind = "number"
       /\ rendered.num >= MinInt32 /\ rendered.num <= MaxInt32
       /\ rendered.num % 65536 = lo
       /\ (rendered.num \div 65536 - hi) % 65536 = 0
       /\ hi <= 32767 => rendered.num = hi * 65536 + lo
       /\ hi >= 32768 => rendered.num = (hi - 65536) * 65536 + lo
       /\ (lo = 65535 /\ hi = 65535) => rendered.num = -1
       /\ (lo = 0 /\ hi = 0) => rendered.num = 0

\* C28 witness: the words 0, 32768 are rendered as -2147483648
C28_MostNegativeRendered ==
  /\ tag.dataType = "int32"
  /\ tag.offset = 0
  /\ dsValues = <<0, 32768>>
  /\ rendered = RenderedNumber(MinInt32)

\* C29: for an int16 tag whose word w is there, the rendered number is w when
\* w <= 32767 and w - 65536 otherwise: the number in -32768..32767 that is
\* congruent to w modulo 65536.
C29_Int16IsTwosComplement ==
  (rendered # NotRendered /\ tag.dataType = "int16" /\ tag.offset + 1 <= Len(dsValues)) =>
    LET w == WordAt(0)
    IN /\ rendered.kind = "number"
       /\ rendered.num >= -32768 /\ rendered.num <= 32767
       /\ (rendered.num - w) % 65536 = 0
       /\ w <= 32767 => rendered.num = w
       /\ w > 32767 => rendered.num = w - 65536

\* C29 witness: the word 32768 at the second position is rendered as -32768
C29_SignBoundaryRendered ==
  /\ tag.dataType = "int16"
  /\ tag.offset = 1
  /\ Len(dsValues) = 2
  /\ dsValues[2] = 32768
  /\ rendered = RenderedNumber(-32768)

\* bit b of the word is 1
BitIsSet(w, b) == (w \div 2^b) % 2 = 1

\* the word with only bit b flipped
Flipped(w, b) == IF BitIsSet(w, b) THEN w - 2^b ELSE w + 2^b

\* C30: for a bool tag whose word w is there, the rendered text is ON exactly
\* when the bit of w at the tag's position b is 1 (position 0 for a tag
\* without bitPosition); flipping only bit b of w inverts what is decoded for
\* position b and leaves what is decoded for every position b2 # b of the
\* word as it was.  The tags range over every position b in 0..15.
C30_BoolFollowsItsBit ==
  (rendered # NotRendered /\ tag.dataType = "bool" /\ tag.offset + 1 <= Len(dsValues)) =>
    LET w == WordAt(0)
        b == IF tag.bitPosition = Undefined THEN 0 ELSE tag.bitPosition
    IN /\ rendered = RenderedText(IF BitIsSet(w, b) THEN "ON" ELSE "OFF")
       /\ \A b2 \in 0..15 :
            /\ renderBool(w, b2) \in {RenderedText("ON"), RenderedText("OFF")}
            /\ (renderBool(Flipped(w, b), b2) = renderBool(w, b2)) <=> (b2 # b)

\* C30 witness: bit 15 of the word 32768 is rendered as ON
C30_TopBitRendered ==
  /\ tag.dataType = "bool"
  /\ tag.bitPosition = 15
  /\ tag.offset = 0
  /\ Len(dsValues) >= 1
  /\ dsValues[1] = 32768
  /\ rendered = RenderedText("ON")

\* the words the tag spans: wordLength words from its offset (one word when
\* the tag has no wordLength)
SpanOf(t) == IF t.wordLength = Undefined THEN 1 ELSE t.wordLength

AllWordsPresent(t) == t.offset + SpanOf(t) <= Len(dsValues)

\* the byte sequence lo(w0), hi(w0), lo(w1), hi(w1), ... of the words of the tag
ByteStream(t) ==
  [i \in 1..(2 * SpanOf(t)) |->
     LET w == dsValues[t.offset + ((i - 1) \div 2) + 1]
     IN IF i % 2 = 1 THEN w % 256 ELSE (w \div 256) % 256]

\* p is the longest prefix of s without a zero
IsLongestZeroFreePrefix(p, s) ==
  /\ Len(p) <= Len(s)
  /\ \A i \in 1..Len(p) : p[i] = s[i] /\ p[i] # 0
  /\ Len(p) < Len(s) => s[Len(p) + 1] = 0

\* C31: for a text tag whose words are all present, the decoded bytes are the
\* longest zero-free prefix of the byte sequence lo(w0), hi(w0), lo(w1), ...:
\* decoding stops at the first zero byte, nothing after it is included, and
\* the text has at most 2 * wordLength bytes.
C31_TextIsZeroFreePrefix ==
  (rendered # NotRendered /\ tag.dataType = "string" /\ AllWordsPresent(tag)) =>
    /\ rendered.kind = "bytes"
    /\ IsLongestZeroFreePrefix(rendered.bytes, ByteStream(tag))
    /\ Len(rendered.bytes) <= 2 * SpanOf(tag)

\* C31 witness: a zero high byte in the first of two words ends the text
\* before the bytes of the second word
C31_ZeroHighByteEndsText ==
  /\ tag.dataType = "string"
  /\ tag.wordLength = 2
  /\ tag.offset = 0
  /\ dsValues = <<1, 21845>>
  /\ rendered = RenderedBytes(<<1>>)


\* the fields of the IEEE-754 single whose upper 16 bits are hi and whose lower
\* 16 bits are lo: sign (1 bit), exponent (8 bits), fraction (23 bits)
SignOf(lo, hi) == hi \div 32768
ExponentOf(lo, hi) == (hi \div 128) % 256
FractionOf(lo, hi) == (hi % 128) * 65536 + lo

\* the pair encodes a normal float: the exponent is neither 0 nor 255
IsNormal(lo, hi) == ExponentOf(lo, hi) \in 1..254

\* n ten-thousandths is a closest number of ten-thousandths to mant / 2^scale,
\* for 1 <= scale and mant < 2^scale or scale > 23
IsClosest(n, mant, scale) ==
  IF scale <= 29
  THEN LET p == MulDiv(mant, 10000, 2^scale)
       IN \/ n = p.q /\ 2 * p.r <= 2^scale
          \/ n = p.q + 1 /\ 2 * p.r >= 2^scale
  ELSE LET p == MulDiv(mant, 10000, 2^29)
           j == scale - 29
       IN IF j > 10 THEN n = 0
          ELSE /\ n <= 313
               /\ n * 2^j - 2^(j - 1) <= p.q
               /\ \/ p.q < n * 2^j + 2^(j - 1)
                  \/ p.q = n * 2^j + 2^(j - 1) /\ p.r = 0

\* r is the float (1 + fraction / 2^23) * 2^(exponent - 127), with its sign,
\* rounded to four decimal digits: at most half a ten-thousandth away from it
IsRoundedFloat(r, lo, hi) ==
  LET mant == 8388608 + FractionOf(lo, hi)
      scale == 150 - ExponentOf(lo, hi)
      whole == IF scale > 23 THEN 0 ELSE mant \div 2^scale
      rest == IF scale > 23 THEN mant ELSE mant % 2^scale
  IN /\ r.kind = "real"
     /\ IF scale <= 0
        THEN r.num = mant /\ r.frac = 0 /\ r.exp2 = 0 - scale
             /\ r.neg = (SignOf(lo, hi) = 1)
        ELSE /\ r.exp2 = 0
             /\ r.frac \in 0..9999
             /\ r.num \in {whole, whole + 1}
             /\ IsClosest((r.num - whole) * 10000 + r.frac, rest, scale)
             /\ r.neg = (SignOf(lo, hi) = 1 /\ (r.num # 0 \/ r.frac # 0))

\* C33: for every word pair [lo, hi] that encodes a normal IEEE-754 32-bit
\* float f (lo the lower, hi the upper 16 bits), renderTagValue returns f
\* rounded to 4 decimal digits.
C33_RealIsRoundedFloat ==
  (/\ rendered # NotRendered
   /\ tag.dataType = "real"
   /\ tag.offset + 2 <= Len(dsValues)
   /\ IsNormal(WordAt(0), WordAt(1))) =>
    IsRoundedFloat(rendered, WordAt(0), WordAt(1))

\* C33 witness: the float closest to pi is rendered as 3.1416
C33_PiRendered ==
  /\ tag.dataType = "real"
  /\ tag.offset = 0
  /\ dsValues = <<4059, 16457>>
  /\ rendered = RenderedReal(FALSE, 3, 1416, 0)

\* the words the tag spans by its kind: two for int32 and real, wordLength for
\* a text, one for int16 and bool
KindSpan(t) ==
  CASE t.dataType \in {"int32", "real"} -> 2
    [] t.dataType = "string" -> SpanOf(t)
    [] OTHER -> 1

\* C32: for every tag kind, when a word the tag spans (offset .. offset +
\* span - 1) lies outside the cached words, the projection yields the
\* not-available marker ("-" while the data set has no words at all) and never
\* a value decoded from a part of the words.
C32_MissingWordIsNotAvailable ==
  (rendered # NotRendered /\ tag.offset + KindSpan(tag) > Len(dsValues)) =>
    rendered \in {RenderedText("N/A"), RenderedText("-")}

\* C34: a poll of key k whose device read happened before a writeData(k, v)
\* wrote the device never overwrites the cache entry the write stored.  Under
\* SpecFirstPoll every poll read the device (or failed) before any write
\* reached it, and only writes to k1 return: once a writeData has returned,
\* no save of a poll of k1 is executed.
C34_EarlierPollNeverOverwrites ==
  [][writeResult = "returned" => ~PollSavedFor("k1")]_vars

\* no startPolling, registerDataPoint or unregisterDataPoint call is in progress
NoSchedulerCall == starts = EmptyBag /\ regs = EmptyBag /\ unregs = EmptyBag

\* the key has an active timer: pollingTimers records a live interval timer
HasActiveTimer(k) ==
  /\ pollingTimers[k] # NoTimer
  /\ \E t \in liveTimers : t.id = pollingTimers[k] /\ t.dp.key = k

\* C35: while the scheduler is Running and no startPolling, registerDataPoint
\* or unregisterDataPoint call is in progress, every definition present in
\* the registry has an active timer (also after an unregisterDataPoint whose
\* registry deletion failed).
C35_RegisteredKeysHaveTimers ==
  (isPollingActive /\ NoSchedulerCall) =>
    \A k \in Keys : registry[k] # NoDef => HasActiveTimer(k)

\* C36: the readCount of a Running period counts only polls initiated since
\* the most recent startPolling.  Under SpecMetrics the only poll is the one
\* on the link in the initial state, no timer ticks and the loop of a new
\* startPolling is not reached: in a period switched on by a startPolling of
\* the behaviour (its call is in starts) no poll was initiated, so its
\* readCount is 0.
C36_OnlyCurrentPeriodCounted ==
  (isPollingActive /\ starts # EmptyBag) => readCount = 0

\* C37: startPolling calls that overlap leave the same state as a single
\* call.  Under SpecStarts no poll completes and nothing stops the scheduler:
\* when the calls have completed with the scheduler Running, the registered
\* key k1 has exactly one timer and exactly one poll of it was initiated, and
\* a step taken while Running does not reset the start time again.
C37_OverlappingStartsAsOne ==
  /\ [](isPollingActive /\ starts = EmptyBag =>
          /\ HasActiveTimer("k1")
          /\ Cardinality(liveTimers) = 1
          /\ PollsOf(Sched, "k1") = 1)
  /\ [][isPollingActive => pollingStartTime' = pollingStartTime]_vars

\* C38: when connect throws during startPolling, the call ends there (the
\* error reaches the caller) and the scheduler state is unchanged: it stays
\* Stopped, no timer is created, no poll is initiated, readCount and the start
\* time are not touched, and the call does not go on to findAllDataPoints.
C38_FailedConnectChangesNothing ==
  [][startPolling_connectFailed =>
       /\ ~isPollingActive /\ ~isPollingActive'
       /\ UNCHANGED <<readCount, pollingStartTime, pollingTimers, liveTimers,
                      gateQueue, inFlight, saves, registry, cache, connected>>
       /\ BagCardinality(starts') = BagCardinality(starts) - 1
       /\ \A call \in DOMAIN starts' : CopiesIn(call, starts') <= CopiesIn(call, starts)]_vars

\* C38 witness: a startPolling call of the Stopped scheduler is suspended at
\* a connect that throws, while a definition is registered
C38_ConnectAboutToThrow ==
  /\ ~isPollingActive
  /\ ~connected
  /\ BagIn(StartCall("connect", {}), starts)
  /\ registry["k1"] # NoDef
  /\ ENABLED startPolling_connectFailed

\* the timer of a key: the handle pollingTimers records and its live timers
TimerOf(k) == <<pollingTimers[k], {t \in liveTimers : t.dp.key = k}>>

\* this step resumes a registerDataPoint of the key after the definition was
\* persisted, or is the first step of an unregisterDataPoint of the key
TimerStepOf(k) ==
  \/ /\ registerDataPoint_saved
     /\ \E call \in DOMAIN regs :
          call.stage = "saved" /\ call.dp.key = k /\ regs' = regs (-) BagOf(call)
  \/ /\ unregisterDataPoint
     /\ unregs' = unregs (+) BagOf(k)

\* C39: when persisting the definition fails in registerDataPoint, the call
\* ends there: no timer is created, cancelled or restarted (a timer already
\* active for the key keeps running) and no poll is initiated; and a
\* registerDataPoint or unregisterDataPoint of a key never cancels or restarts
\* the timer of another key.
C39_FailedRegisterKeepsTimers ==
  [][/\ registerDataPoint_rejected =>
          /\ UNCHANGED <<pollingTimers, liveTimers, gateQueue, inFlight, saves,
                         registry, isPollingActive, readCount, pollingStartTime>>
          /\ BagCardinality(regs') = BagCardinality(regs) - 1
     /\ \A k \in Keys :
          TimerStepOf(k) => \A k2 \in Keys \ {k} : TimerOf(k2)' = TimerOf(k2)]_vars

\* C39 witness: both keys have active timers while the registration of a key
\* that is already registered is about to be rejected
C39_DuplicateAboutToBeRejected ==
  /\ isPollingActive
  /\ \A k \in Keys : HasActiveTimer(k)
  /\ \E call \in DOMAIN regs :
       call.stage = "create" /\ registry[call.dp.key] # NoDef

====
